---- MODULE Spec2Model ----
(***************************************************************************)
(* ventai: batch extraction of startup records from model output           *)
(* (ExtractionAgent) and deduplication / clustering (AnalysisAgent).       *)
(*                                                                         *)
(* Text is modelled as a sequence of one-character strings.  Model output  *)
(* is modelled as a sequence of tokens, each standing for a fixed piece of *)
(* text:                                                                   *)
(*   "["  "]"  ","   the characters themselves                             *)
(*   "s"             one whitespace character                              *)
(*   "w"             the letter x (prose, never valid JSON)                *)
(*   "n"             the digit 1 (adjacent digits form one number)         *)
(*   "qL"            {"name":"A      an object whose name string is open   *)
(*   "qR"            b"}             closes that string and the object     *)
(*   "o1".."o7"      a complete object literal free of brackets            *)
(***************************************************************************)
EXTENDS Integers, Sequences, FiniteSets, TLC

VARIABLES
    articles,         \* extract_startups: the caller's list of articles
    topic,            \* extract_startups: the topic argument
    status_callback,  \* ExtractionAgent/AnalysisAgent.status_callback is set
    pc,               \* position of the running operation
    filtered,         \* extract_startups: local `articles` after the pre-filter
    batch_idx,        \* extract_startups: loop variable (0-based offset)
    prompt,           \* content_parts of the invocation in flight
    calls,            \* number of model invocations started
    response,         \* last text returned by _call_ollama
    startups,         \* last value of _extract_json_from_response
    all_startups,     \* extract_startups: accumulated records
    outcomes,         \* per batch processed: how its invocation ended
    messages,         \* messages delivered to the status callback
    result,           \* return value of the operation, once returned
    n_clusters,       \* AnalysisAgent.n_clusters
    an_input,         \* analyze: the `startups` argument
    df,               \* AnalysisAgent.df (rows in order)
    chunks,           \* extract_startups: every `chunk` formed so far, in order
    insights,         \* generate_insights_summary: the text returned, by sentence
    stats,            \* get_summary_stats: the mapping returned
    research,         \* fetch_all_sources: arguments, locals and position
    enrich,           \* enrich_startups: argument, locals and position
    session           \* app.py: st.session_state and what the page surfaced

vars == <<articles, topic, research, session, enrich, stats, chunks, insights, status_callback, pc, filtered, batch_idx, prompt,
          calls, response, startups, all_startups, outcomes, messages, result,
          n_clusters, an_input, df>>

----------------------------------------------------------------------------
(* Bounds of the model *)

MaxRespLen == 5      \* longest token sequence parsed in SpecParse
MaxPrefix == 2       \* articles of arbitrary kind at the head of the input
MaxPad == 5          \* relevant articles appended after them
MaxRecords == 3      \* longest input list of analyze
MaxK == 3            \* largest cluster target
MaxRows == 5         \* longest input list summarized in SpecInsights
MaxReuse == 2        \* longest input list of a repeated analyze call
MaxEnrich == 3       \* longest input list of enrich_startups

----------------------------------------------------------------------------
(* Generic helpers *)

Min(a, b) == IF a <= b THEN a ELSE b

SeqsUpTo(S, n) == UNION {[1..k -> S] : k \in 0..n}

\* s[:n]
Truncate(s, n) == SubSeq(s, 1, Min(n, Len(s)))

RECURSIVE LStrip(_, _)
LStrip(s, ws) ==
    IF s # <<>> /\ Head(s) \in ws THEN LStrip(Tail(s), ws) ELSE s

RECURSIVE RStrip(_, _)
RStrip(s, ws) ==
    IF s # <<>> /\ s[Len(s)] \in ws THEN RStrip(SubSeq(s, 1, Len(s) - 1), ws) ELSE s

\* str.strip() on text
Strip(s) == RStrip(LStrip(s, {" "}), {" "})

\* str.strip() on a token sequence
StripTokens(s) == RStrip(LStrip(s, {"s"}), {"s"})

UpperLetters ==
    <<"A", "B", "C", "D", "E", "F", "G", "H", "I", "J", "K", "L", "M",
      "N", "O", "P", "Q", "R", "S", "T", "U", "V", "W", "X", "Y", "Z">>

LowerLetters ==
    <<"a", "b", "c", "d", "e", "f", "g", "h", "i", "j", "k", "l", "m",
      "n", "o", "p", "q", "r", "s", "t", "u", "v", "w", "x", "y", "z">>

LowerChar(c) ==
    IF \E i \in 1..Len(UpperLetters) : UpperLetters[i] = c
    THEN LowerLetters[CHOOSE i \in 1..Len(UpperLetters) : UpperLetters[i] = c]
    ELSE c

\* str.lower()
Lower(s) == [i \in 1..Len(s) |-> LowerChar(s[i])]

\* needle in haystack
Contains(haystack, needle) ==
    \E i \in 0..(Len(haystack) - Len(needle)) :
        SubSeq(haystack, i + 1, i + Len(needle)) = needle

----------------------------------------------------------------------------
(* JSON values *)

JNone == [kind |-> "none"]
JNum(k) == [kind |-> "num", digits |-> k]
JArr(items) == [kind |-> "arr", items |-> items]

\* values of an object's keys
Absent == [ty |-> "absent", v |-> <<>>]
FNull == [ty |-> "null", v |-> <<>>]
FStr(chars) == [ty |-> "str", v |-> chars]
FInt(digits) == [ty |-> "int", v |-> digits]

JObj(name, description, country, category) ==
    [kind |-> "obj", name |-> name, description |-> description,
     country |-> country, category |-> category]

\* the object literals the tokens "o1".."o7" stand for
ObjectLiteral ==
    [o1 |-> JObj(FStr(<<"A", "c">>), FStr(<<"d">>), FStr(<<"U", "S">>), FStr(<<"A", "I">>)),
     o2 |-> JObj(FStr(<<" ", " ">>), Absent, Absent, Absent),
     o3 |-> JObj(Absent, FStr(<<"d">>), Absent, Absent),
     o4 |-> JObj(FInt(<<"5">>), Absent, FNull, Absent),
     o5 |-> JObj(FStr(<<" ", "a", "c", " ">>), Absent, FStr(<<" ", "D", "E">>), Absent),
     o6 |-> JObj(FStr(<<>>), FStr(<<"d">>), Absent, Absent),
     o7 |-> JObj(FStr(<<"A", "c", "m", "e">>),
                 FStr(<<"A", "I", " ", "p", "l", "a", "t", "f", "o", "r", "m">>),
                 FStr(<<"U", "S">>), FStr(<<"A", "I">>))]

ObjectTokens == DOMAIN ObjectLiteral

\* tokens that may stand inside an open string, and the text they are there
StringContent == {"[", "]", ",", "s", "w", "n"}

CharOf(tok) ==
    CASE tok = "s" -> " "
      [] tok = "w" -> "x"
      [] tok = "n" -> "1"
      [] OTHER -> tok

----------------------------------------------------------------------------
(* json.loads on a token sequence *)

Fail == [ok |-> FALSE, val |-> JNone, rest |-> <<>>]
Ok(v, rest) == [ok |-> TRUE, val |-> v, rest |-> rest]

SkipWs(s) == LStrip(s, {"s"})

RECURSIVE DigitRun(_)
DigitRun(s) == IF s # <<>> /\ Head(s) = "n" THEN 1 + DigitRun(Tail(s)) ELSE 0

RECURSIVE ParseString(_, _)
ParseString(s, acc) ==
    IF s = <<>> THEN Fail
    ELSE IF Head(s) = "qR"
         THEN Ok(JObj(FStr(acc \o <<"b">>), Absent, Absent, Absent), Tail(s))
    ELSE IF Head(s) \in StringContent
         THEN ParseString(Tail(s), Append(acc, CharOf(Head(s))))
    ELSE Fail

RECURSIVE ParseValue(_)
RECURSIVE ParseItems(_, _)

ParseArray(s) ==
    LET s1 == SkipWs(s)
    IN  IF s1 # <<>> /\ Head(s1) = "]" THEN Ok(JArr(<<>>), Tail(s1))
        ELSE ParseItems(s1, <<>>)

ParseValue(s) ==
    IF s = <<>> THEN Fail
    ELSE LET h == Head(s)
         IN  CASE h = "n" -> LET k == DigitRun(s)
                             IN  Ok(JNum(k), SubSeq(s, k + 1, Len(s)))
               [] h \in ObjectTokens -> Ok(ObjectLiteral[h], Tail(s))
               [] h = "qL" -> ParseString(Tail(s), <<"A">>)
               [] h = "[" -> ParseArray(Tail(s))
               [] OTHER -> Fail

ParseItems(s, acc) ==
    LET v == ParseValue(SkipWs(s))
        r == SkipWs(v.rest)
    IN  IF ~v.ok \/ r = <<>> THEN Fail
        ELSE IF Head(r) = "," THEN ParseItems(Tail(r), Append(acc, v.val))
        ELSE IF Head(r) = "]" THEN Ok(JArr(Append(acc, v.val)), Tail(r))
        ELSE Fail

\* json.loads(text): ok = FALSE stands for JSONDecodeError
JsonLoads(s) ==
    LET v == ParseValue(SkipWs(s))
    IN  IF v.ok /\ SkipWs(v.rest) = <<>> THEN [ok |-> TRUE, val |-> v.val]
        ELSE [ok |-> FALSE, val |-> JNone]

----------------------------------------------------------------------------
(* ExtractionAgent._extract_json_from_response *)

\* least index >= from at which tok stands, 0 if none
IndexFrom(s, tok, from) ==
    IF \E i \in from..Len(s) : s[i] = tok
    THEN CHOOSE i \in from..Len(s) :
             s[i] = tok /\ \A j \in from..(i - 1) : s[j] # tok
    ELSE 0

\* re.findall(r'\[.*?\]', response, re.DOTALL)
RECURSIVE FindAllFrom(_, _)
FindAllFrom(s, pos) ==
    LET i == IndexFrom(s, "[", pos)
        j == IF i = 0 THEN 0 ELSE IndexFrom(s, "]", i + 1)
    IN  IF i = 0 \/ j = 0 THEN <<>>
        ELSE <<SubSeq(s, i, j)>> \o FindAllFrom(s, j + 1)

FindAll(s) == FindAllFrom(s, 1)

\* the loop over the matches
RECURSIVE FirstMatch(_)
FirstMatch(matches) ==
    IF matches = <<>> THEN JNone
    ELSE LET data == JsonLoads(StripTokens(Head(matches)))
         IN  IF data.ok /\ data.val.kind = "arr" /\ Len(data.val.items) > 0
             THEN data.val
             ELSE FirstMatch(Tail(matches))

\* the fallback: the whole response
WholeResponseAnyJson(resp) ==
    LET data == JsonLoads(StripTokens(resp))
    IN  IF data.ok THEN data.val ELSE JNone

WholeResponse(resp) ==
    LET data == JsonLoads(StripTokens(resp))
    IN  IF data.ok /\ data.val.kind = "arr" THEN data.val ELSE JNone

ExtractJsonFromResponse(resp) ==
    LET m == FirstMatch(FindAll(resp))
    IN  IF m # JNone THEN m ELSE WholeResponse(resp)

----------------------------------------------------------------------------
(* ExtractionAgent: constants and inputs *)

CHUNK_SIZE == 5
ContentLimit == 1500
TitleLimit == 100

keywords ==
    << <<"s", "t", "a", "r", "t", "u", "p">>,
       <<"c", "o", "m", "p", "a", "n", "y">>,
       <<"a", "i">>,
       <<"s", "o", "f", "t", "w", "a", "r", "e">>,
       <<"t", "e", "c", "h">>,
       <<"b", "u", "s", "i", "n", "e", "s", "s">>,
       <<"v", "e", "n", "t", "u", "r", "e">>,
       <<"f", "u", "n", "d", "i", "n", "g">>,
       <<"r", "a", "i", "s", "e", "d">> >>

Article(title, summary, content) ==
    [title |-> title, summary |-> summary, content |-> content]

\* matches a keyword in its content
ArtContent == Article(FStr(<<"t">>), Absent, FStr(<<"A", "I", " ">>))
\* matches a keyword in its summary only
ArtSummary == Article(FStr(<<"t">>), FStr(<<"T", "e", "c", "h">>), FStr(<<"x">>))
\* matches a keyword in its title only; its content is blank
ArtTitle == Article(FStr(<<"a", "i">>), Absent, FStr(<<" ">>))
\* matches no keyword
ArtNone == Article(Absent, Absent, FStr(<<"x">>))

ArticleKinds == {ArtContent, ArtSummary, ArtTitle, ArtNone}

\* the two articles of a scan: one about a startup, one unrelated
ArtAcme ==
    Article(FStr(<<"N", "e", "w", "s">>), Absent,
            FStr(<<"A", "c", "m", "e", " ", "r", "a", "i", "s", "e", "d", " ",
                   "f", "u", "n", "d", "i", "n", "g", " ", "f", "o", "r", " ",
                   "i", "t", "s", " ", "A", "I", " ", "s", "t", "a", "r", "t", "u", "p">>))
ArtGeneric ==
    Article(FStr(<<"W", "e", "a", "t", "h", "e", "r">>), Absent,
            FStr(<<"W", "e", "a", "t", "h", "e", "r", " ", "w", "a", "s", " ",
                   "m", "i", "l", "d", " ", "t", "o", "d", "a", "y">>))

ScanArticles == {ArtAcme, ArtGeneric}

ArticleLists ==
    {p \o [i \in 1..k |-> ArtContent] :
        p \in SeqsUpTo(ArticleKinds, MaxPrefix), k \in 0..MaxPad}

\* what the model process may print
ModelOutputs ==
    { <<"[", "o1", "]">>,
      <<"w", "s", "[", "o1", ",", "s", "o5", "]", "s", "w">>,
      <<"w", "s", "w">>,
      <<"[", "]">>,
      <<"s", "[", "o2", ",", "o4", "]", "s">>,
      <<"[", "o5", ",", "n", ",", "o3", ",", "o6", ",", "o1", "]">>,
      <<"[", "qL", "]", "qR", "]">>,
      <<"o1">>,
      <<"n">>,
      <<"w", "[", "n", "]", "s", "[", "o1", "]">>,
      <<"[", "o1", "s", "w">>,
      <<"[", "o7", "]">> }

\* dict.get(key, default)
Get(f, default) == IF f = Absent THEN default ELSE f

\* article.get(key, default) for text values
GetText(f, default) == Get(f, FStr(default)).v

\* truth value of a JSON scalar
Truthy(f) ==
    CASE f.ty = "str" -> f.v # <<>>
      [] f.ty = "int" -> f.v # <<"0">>
      [] OTHER -> FALSE

\* str(x)
Str(f) ==
    CASE f.ty = "null" -> <<"N", "o", "n", "e">>
      [] OTHER -> f.v

Unknown == <<"U", "n", "k", "n", "o", "w", "n">>
Other == <<"O", "t", "h", "e", "r">>

----------------------------------------------------------------------------
(* ExtractionAgent._update_status *)

Msg(kind, a, b, text) == [kind |-> kind, a |-> a, b |-> b, text |-> text]

UpdateStatus(msgs, cb, m) == IF cb THEN Append(msgs, m) ELSE msgs

RECURSIVE UpdateAll(_, _, _)
UpdateAll(msgs, cb, ms) ==
    IF ms = <<>> THEN msgs
    ELSE UpdateAll(UpdateStatus(msgs, cb, Head(ms)), cb, Tail(ms))

----------------------------------------------------------------------------
(* ExtractionAgent._call_ollama *)

Raise(text) == [raised |-> TRUE, exc |-> text, value |-> <<>>]
Return(v) == [raised |-> FALSE, exc |-> "", value |-> v]

ExcTimeout == "Ollama request timed out"
ExcNotFound ==
    "Ollama not found. Please install Ollama and ensure 'ollama serve' is running."
ExcOllamaError == "Ollama error: stderr"
ExcEncoding == "Encoding error: e"

\* how the process ended
ProcExit(code, out) == [kind |-> "exit", returncode |-> code, stdout |-> out]
ProcTimeout == [kind |-> "timeout", returncode |-> 0, stdout |-> <<>>]
ProcNotFound == [kind |-> "notfound", returncode |-> 0, stdout |-> <<>>]
ProcDecode == [kind |-> "decode", returncode |-> 0, stdout |-> <<>>]

CallOllamaIgnoringExit(proc) ==
    CASE proc.kind = "timeout" -> Raise(ExcTimeout)
      [] proc.kind = "notfound" -> Raise(ExcNotFound)
      [] proc.kind = "decode" -> Raise(ExcEncoding)
      [] OTHER -> Return(StripTokens(proc.stdout))

CallOllama(proc) ==
    CASE proc.kind = "timeout" -> Raise(ExcTimeout)
      [] proc.kind = "notfound" -> Raise(ExcNotFound)
      [] proc.kind = "decode" -> Raise(ExcEncoding)
      [] OTHER -> IF proc.returncode # 0 THEN Raise(ExcOllamaError)
                  ELSE Return(StripTokens(proc.stdout))

\* str(e)[:50]
ErrorText(exc) ==
    IF exc = ExcNotFound
    THEN "Ollama not found. Please install Ollama and ensure"
    ELSE exc

----------------------------------------------------------------------------
(* ExtractionAgent.extract_startups *)

\* the pre-filter's condition on one article
RelevantContentOrTitle(a) ==
    \E i \in 1..Len(keywords) :
        \/ Contains(Lower(GetText(a.content, <<>>)), keywords[i])
        \/ Contains(Lower(GetText(a.title, <<>>)), keywords[i])

RelevantAlways(a) == TRUE

Relevant(a) ==
    \E i \in 1..Len(keywords) :
        \/ Contains(Lower(GetText(a.content, <<>>)), keywords[i])
        \/ Contains(Lower(GetText(a.summary, <<>>)), keywords[i])
        \/ Contains(Lower(GetText(a.title, <<>>)), keywords[i])

RECURSIVE SelectSeq2(_)
SelectSeq2(s) ==
    IF s = <<>> THEN <<>>
    ELSE IF Relevant(Head(s)) THEN <<Head(s)>> \o SelectSeq2(Tail(s))
    ELSE SelectSeq2(Tail(s))

PreFilter(as) == SelectSeq2(as)

\* `if not articles:` after the pre-filter
NothingLeftNever(kept) == FALSE
NothingLeft(kept) == kept = <<>>

TotalBatchesRoundedDown(n) == n \div CHUNK_SIZE
TotalBatches(n) == (n + CHUNK_SIZE - 1) \div CHUNK_SIZE

\* articles[batch_idx:batch_idx + CHUNK_SIZE]
ChunkOneShort(as, idx) == SubSeq(as, idx + 1, Min(idx + CHUNK_SIZE - 1, Len(as)))
Chunk(as, idx) == SubSeq(as, idx + 1, Min(idx + CHUNK_SIZE, Len(as)))

\* content_parts of a chunk
RECURSIVE ContentParts(_)
ContentParts(chunk) ==
    IF chunk = <<>> THEN <<>>
    ELSE LET content == Strip(Truncate(GetText(Head(chunk).content, <<>>), ContentLimit))
             title == Truncate(GetText(Head(chunk).title, Unknown), TitleLimit)
         IN  (IF content # <<>>
              THEN <<[title |-> title, content |-> content]>>
              ELSE <<>>) \o ContentParts(Tail(chunk))

BuildPrompt(tp, chunk) == [topic |-> tp, parts |-> ContentParts(chunk)]

\* isinstance(startup, dict) and startup.get('name')
AcceptsAnyObject(startup) == startup.kind = "obj"
Accepts(startup) == startup.kind = "obj" /\ Truthy(Get(startup.name, FNull))

CleanedUnstripped(startup) ==
    [name |-> Str(Get(startup.name, FStr(Unknown))),
     description |-> Str(Get(startup.description, FStr(<<>>))),
     country |-> Str(Get(startup.country, FStr(Unknown))),
     category |-> Str(Get(startup.category, FStr(Other)))]

Cleaned(startup) ==
    [name |-> Strip(Str(Get(startup.name, FStr(Unknown)))),
     description |-> Strip(Str(Get(startup.description, FStr(<<>>)))),
     country |-> Strip(Str(Get(startup.country, FStr(Unknown)))),
     category |-> Strip(Str(Get(startup.category, FStr(Other))))]

\* the records one parsed array appends, in order
RECURSIVE BatchRecords(_)
BatchRecords(items) ==
    IF items = <<>> THEN <<>>
    ELSE (IF Accepts(Head(items)) THEN <<Cleaned(Head(items))>> ELSE <<>>)
         \o BatchRecords(Tail(items))

\* `if startups:`
NonEmptyList(parsed) == parsed.kind = "arr" /\ parsed.items # <<>>

\* `except Exception` around one batch
CaughtExceptTimeout(exc) == exc # ExcTimeout
CaughtExceptNotFound(exc) == exc # ExcNotFound
Caught(exc) == TRUE

\* what one pass of the loop did: how the process ended, the response and
\* the parsed value (when the call returned), the records appended
Outcome(how, resp, parsed, recs) ==
    [how |-> how, response |-> resp, parsed |-> parsed, recs |-> recs]

\* a pass of the loop whose invocation raised exc
Failed(how, exc) ==
    [how |-> how, response |-> <<>>, parsed |-> JNone, recs |-> <<>>, exc |-> exc]

NoPrompt == [topic |-> "", parts |-> <<>>]
NoResult == [kind |-> "pending", value |-> <<>>]
Returned(v) == [kind |-> "returned", value |-> v]
Raised(exc) == [kind |-> "raised", value |-> exc]

\* `articles = filtered_articles` rebinds the local name; the list the
\* caller passed is the one it was
CallerListFiltered(as, kept) == kept
CallerList(as, kept) == as

\* subprocess.run blocks: the loop is at its top only between two passes
LoopAtTopOrCalling(p) == p \in {"loop", "calling"}
LoopAtTop(p) == p = "loop"

ExtractStart ==
    /\ pc = "idle"
    /\ LET kept == PreFilter(articles)
           head == << Msg("start", 0, 0, ""),
                      Msg("prefilter", Len(kept), Len(articles), "") >>
       IN  /\ filtered' = kept
           /\ articles' = CallerList(articles, kept)
           /\ IF NothingLeft(kept)
              THEN /\ messages' = UpdateAll(messages, status_callback,
                                            Append(head, Msg("no_articles", 0, 0, "")))
                   /\ result' = Returned(<<>>)
                   /\ pc' = "returned"
              ELSE /\ messages' = UpdateAll(messages, status_callback,
                                            Append(head, Msg("per_batch", CHUNK_SIZE, 0, "")))
                   /\ result' = result
                   /\ pc' = "loop"
    /\ batch_idx' = 0
    /\ all_startups' = <<>>
    /\ UNCHANGED <<topic, research, session, enrich, stats, chunks, insights,
                   status_callback, prompt, calls, response,
                   startups, outcomes, n_clusters, an_input, df>>

\* top of the loop body up to the start of the model invocation
BatchBegin ==
    /\ LoopAtTop(pc)
    /\ batch_idx < Len(filtered)
    /\ LET chunk == Chunk(filtered, batch_idx)
           batch_num == (batch_idx \div CHUNK_SIZE) + 1
       IN  /\ messages' = UpdateStatus(messages, status_callback,
                 Msg("processing", batch_num, TotalBatches(Len(filtered)), ""))
           /\ prompt' = BuildPrompt(topic, chunk)
           /\ chunks' = Append(chunks, chunk)
    /\ calls' = calls + 1
    /\ pc' = "calling"
    /\ UNCHANGED <<articles, topic, research, session, enrich, stats, insights, status_callback, filtered, batch_idx, response,
                   startups, all_startups, outcomes, result, n_clusters, an_input, df>>

\* the rest of the loop body, given how the model process ended
BatchComplete(proc, how) ==
    /\ pc = "calling"
    /\ LET call == CallOllama(proc)
           batch_num == (batch_idx \div CHUNK_SIZE) + 1
           parsed == ExtractJsonFromResponse(call.value)
           recs == IF NonEmptyList(parsed) THEN BatchRecords(parsed.items) ELSE <<>>
       IN  IF call.raised
           THEN IF Caught(call.exc)
                THEN /\ messages' = UpdateStatus(messages, status_callback,
                                        Msg("error", batch_num, 0, ErrorText(call.exc)))
                     /\ outcomes' = Append(outcomes, Failed(how, call.exc))
                     /\ batch_idx' = batch_idx + CHUNK_SIZE
                     /\ pc' = "loop"
                     /\ UNCHANGED <<response, startups, all_startups, result>>
                ELSE /\ result' = Raised(call.exc)
                     /\ outcomes' = Append(outcomes, Failed(how, call.exc))
                     /\ pc' = "raised"
                     /\ UNCHANGED <<response, startups, all_startups, messages, batch_idx>>
           ELSE /\ response' = call.value
                /\ startups' = parsed
                /\ all_startups' = all_startups \o recs
                /\ messages' = UpdateStatus(messages, status_callback,
                                   IF NonEmptyList(parsed)
                                   THEN Msg("found", batch_num, Len(recs), "")
                                   ELSE Msg("none", batch_num, 0, ""))
                /\ outcomes' = Append(outcomes, Outcome(how, call.value, parsed, recs))
                /\ batch_idx' = batch_idx + CHUNK_SIZE
                /\ pc' = "loop"
                /\ result' = result
    /\ prompt' = NoPrompt
    /\ UNCHANGED <<articles, topic, research, session, enrich, stats, chunks, insights, status_callback, filtered, calls,
                   n_clusters, an_input, df>>

OllamaReturns == \E out \in ModelOutputs : BatchComplete(ProcExit(0, out), "ok")

OllamaExitsNonZero == BatchComplete(ProcExit(1, <<>>), "nonzero")

OllamaTimesOut == BatchComplete(ProcTimeout, "timeout")

OllamaNotFound == BatchComplete(ProcNotFound, "notfound")

OllamaDecodeError == BatchComplete(ProcDecode, "decode")

ExtractFinish ==
    /\ pc = "loop"
    /\ batch_idx >= Len(filtered)
    /\ messages' = UpdateStatus(messages, status_callback,
                       Msg("complete", Len(all_startups), Len(filtered), ""))
    /\ result' = Returned(all_startups)
    /\ pc' = "returned"
    /\ UNCHANGED <<articles, topic, research, session, enrich, stats, chunks, insights, status_callback, filtered, batch_idx, prompt,
                   calls, response, startups, all_startups, outcomes,
                   n_clusters, an_input, df>>

----------------------------------------------------------------------------
(* AnalysisAgent.analyze *)

Record(name, description, country, category) ==
    [name |-> name, description |-> description,
     country |-> country, category |-> category]

RecordKinds ==
    { Record(<<"A", "c">>, <<"d">>, <<"U", "S">>, <<"A", "I">>),
      Record(<<"a", "C">>, <<"e">>, <<"D", "E">>, <<"F", "i">>),
      Record(<<"B">>, <<"d">>, <<"U", "S">>, <<"A", "I">>),
      Record(<<"c">>, <<"e">>, <<"D", "E">>, <<"A", "I">>),
      Record(<<"d">>, <<"d">>, <<"U", "S">>, <<"F", "i">>) }

Row(rec, c) ==
    [name |-> rec.name, description |-> rec.description,
     country |-> rec.country, category |-> rec.category, cluster |-> c]

\* drop_duplicates(subset=['name_lower'], keep='first')
RECURSIVE DropDuplicates(_, _)
DropDuplicates(recs, seen) ==
    IF recs = <<>> THEN <<>>
    ELSE LET key == Lower(Head(recs).name)
         IN  IF key \in seen THEN DropDuplicates(Tail(recs), seen)
             ELSE <<Head(recs)>> \o DropDuplicates(Tail(recs), seen \cup {key})

\* compares the names as written
RECURSIVE DropDuplicatesExact(_, _)
DropDuplicatesExact(recs, seen) ==
    IF recs = <<>> THEN <<>>
    ELSE IF Head(recs).name \in seen THEN DropDuplicatesExact(Tail(recs), seen)
         ELSE <<Head(recs)>> \o DropDuplicatesExact(Tail(recs), seen \cup {Head(recs).name})

DedupCaseSensitive(recs) == DropDuplicatesExact(recs, {})

Reverse(s) == [i \in 1..Len(s) |-> s[Len(s) + 1 - i]]

\* keep='last'
DedupKeepLast(recs) == Reverse(DropDuplicates(Reverse(recs), {}))

Dedup(recs) == DropDuplicates(recs, {})

\* min(self.n_clusters, len(self.df))
EffectiveK(k, n) == Min(k, n)

\* `if n_clusters > 1 and len(texts) > n_clusters`
RunsKMeansAtLeast(k, n) == EffectiveK(k, n) > 1 /\ n >= EffectiveK(k, n)
RunsKMeansNoSizeCheck(k, n) == EffectiveK(k, n) > 1
RunsKMeans(k, n) == EffectiveK(k, n) > 1 /\ n > EffectiveK(k, n)

\* `if len(self.df) > 1`
TriesClustering(n) == n > 1

\* what fit_transform followed by fit_predict may do on n texts
KMeansLabels(n, k) == [1..n -> 0..(k - 1)]
KMeansOk(labels) == [raised |-> FALSE, labels |-> labels]
KMeansFails == [raised |-> TRUE, labels |-> <<>>]

\* `except Exception` around the clustering
ClusteringNotCaught(km) == FALSE
ClusteringCaught(km) == TRUE

\* the body of analyze on a non-empty input; km is what k-means does if run
AnalyzeBodyNeedingSink(input, k, cb, msgs, km) ==
    LET unique == Dedup(input)
    IN  [rows |-> IF cb THEN [i \in 1..Len(unique) |-> Row(unique[i], 0)] ELSE <<>>,
         raised |-> FALSE,
         msgs |-> UpdateStatus(msgs, cb, Msg("analysis_complete", 0, 0, ""))]

AnalyzeBody(input, k, cb, msgs, km) ==
    LET unique == Dedup(input)
        n == Len(unique)
        ek == EffectiveK(k, n)
        zero == [i \in 1..n |-> Row(unique[i], 0)]
        m1 == UpdateAll(msgs, cb, << Msg("analyzing", Len(input), 0, ""),
                                     Msg("dedup", n, 0, "") >>)
    IN  IF TriesClustering(n)
        THEN LET m2 == UpdateStatus(m1, cb, Msg("clustering", 0, 0, ""))
             IN  IF RunsKMeans(k, n)
                 THEN IF km.raised
                      THEN IF ClusteringCaught(km)
                           THEN [rows |-> zero, raised |-> FALSE,
                                 msgs |-> UpdateAll(m2, cb,
                                     << Msg("cluster_error", 0, 0, "e"),
                                        Msg("analysis_complete", 0, 0, "") >>)]
                           ELSE [rows |-> [i \in 1..n |-> Row(unique[i], 0 - 1)],
                                 raised |-> TRUE, msgs |-> m2]
                      ELSE [rows |-> [i \in 1..n |-> Row(unique[i], km.labels[i])],
                            raised |-> FALSE,
                            msgs |-> UpdateAll(m2, cb,
                                << Msg("clusters_created", ek, 0, ""),
                                   Msg("analysis_complete", 0, 0, "") >>)]
                 ELSE [rows |-> zero, raised |-> FALSE,
                       msgs |-> UpdateAll(m2, cb,
                           << Msg("too_few", 0, 0, ""),
                              Msg("clusters_created", ek, 0, ""),
                              Msg("analysis_complete", 0, 0, "") >>)]
        ELSE [rows |-> zero, raised |-> FALSE,
              msgs |-> UpdateStatus(m1, cb, Msg("analysis_complete", 0, 0, ""))]

AnalyzeWith(km) ==
    LET out == AnalyzeBody(an_input, n_clusters, status_callback, messages, km)
    IN  /\ df' = [set |-> TRUE, rows |-> out.rows]
        /\ messages' = out.msgs
        /\ result' = IF out.raised THEN Raised("e") ELSE Returned(out.rows)
        /\ pc' = IF out.raised THEN "an_raised" ELSE "an_returned"
        /\ outcomes' = Append(outcomes,
               Outcome(IF ~RunsKMeans(n_clusters, Len(Dedup(an_input))) THEN "no_kmeans"
                       ELSE IF km.raised THEN "kmeans_failed" ELSE "kmeans_ok",
                       <<>>, JNone, <<>>))
        /\ UNCHANGED <<articles, topic, research, session, enrich, stats, chunks, insights, status_callback, filtered, batch_idx, prompt,
                       calls, response, startups, all_startups,
                       n_clusters, an_input>>

\* analyze([])
AnalyzeEmpty ==
    /\ pc = "an_idle"
    /\ an_input = <<>>
    /\ messages' = UpdateStatus(messages, status_callback, Msg("no_startups", 0, 0, ""))
    /\ result' = Returned(<<>>)
    /\ pc' = "an_returned"
    /\ UNCHANGED <<articles, topic, research, session, enrich, stats, chunks, insights, status_callback, filtered, batch_idx, prompt,
                   calls, response, startups, all_startups, outcomes,
                   n_clusters, an_input, df>>

\* analyze on an input that does not reach k-means
AnalyzeUnclustered ==
    /\ pc = "an_idle"
    /\ an_input # <<>>
    /\ ~RunsKMeans(n_clusters, Len(Dedup(an_input)))
    /\ AnalyzeWith(KMeansFails)

\* analyze where vectorization and k-means succeed
AnalyzeClustered ==
    /\ pc = "an_idle"
    /\ an_input # <<>>
    /\ RunsKMeans(n_clusters, Len(Dedup(an_input)))
    /\ \E labels \in KMeansLabels(Len(Dedup(an_input)),
                                  EffectiveK(n_clusters, Len(Dedup(an_input)))) :
           AnalyzeWith(KMeansOk(labels))

\* analyze where vectorization or k-means raises
AnalyzeClusteringFails ==
    /\ pc = "an_idle"
    /\ an_input # <<>>
    /\ RunsKMeans(n_clusters, Len(Dedup(an_input)))
    /\ AnalyzeWith(KMeansFails)

----------------------------------------------------------------------------
(* AnalysisAgent.generate_insights_summary *)

TopN == 3

\* one sentence of the summary: what it states, a count, the names it lists
Sentence(kind, n, names) == [kind |-> kind, n |-> n, names |-> names]

NoData == << Sentence("no_data", 0, <<>>) >>

Column(rows, key) == [i \in 1..Len(rows) |-> rows[i][key]]

Occurrences(col, v) == Cardinality({i \in 1..Len(col) : col[i] = v})

\* the distinct values of a column in the order they first occur
RECURSIVE FirstSeen(_, _)
FirstSeen(col, seen) ==
    IF col = <<>> THEN <<>>
    ELSE IF Head(col) \in seen THEN FirstSeen(Tail(col), seen)
    ELSE <<Head(col)>> \o FirstSeen(Tail(col), seen \cup {Head(col)})

ValueCountsHeadUnsorted(col) ==
    LET seen == FirstSeen(col, {})
    IN  {SubSeq(seen, 1, Min(TopN, Len(seen)))}

\* value_counts().head(3).index.tolist(): the values by descending count;
\* the order among values of equal count is the library's choice
ValueCountsHead(col) ==
    LET distinct == {col[i] : i \in 1..Len(col)}
        m == Min(TopN, Cardinality(distinct))
    IN  {t \in [1..m -> distinct] :
            /\ \A i, j \in 1..m : i < j =>
                   t[i] # t[j] /\ Occurrences(col, t[i]) >= Occurrences(col, t[j])
            /\ \A v \in distinct : (\A i \in 1..m : t[i] # v) =>
                   \A i \in 1..m : Occurrences(col, v) <= Occurrences(col, t[i])}

\* self.df['cluster'].nunique()
NUnique(col) == Cardinality({col[i] : i \in 1..Len(col)})

\* `if n_clusters > 1`
StatesThemesAlways(n) == TRUE
StatesThemes(n) == n > 1

\* `self.df is None or len(self.df) == 0`
NoAnalyzedData(frame) == ~frame.set \/ frame.rows = <<>>

InsightsSummary(rows, cats, countries) ==
    LET themes == NUnique(Column(rows, "cluster"))
    IN  << Sentence("total", Len(rows), <<>>),
           Sentence("categories", 0, cats),
           Sentence("countries", 0, countries) >>
        \o (IF StatesThemes(themes) THEN << Sentence("clusters", themes, <<>>) >> ELSE <<>>)

GenerateInsights ==
    /\ pc \in {"an_idle", "an_returned"}
    /\ IF NoAnalyzedData(df)
       THEN insights' = NoData
       ELSE \E cats \in ValueCountsHead(Column(df.rows, "category")) :
            \E countries \in ValueCountsHead(Column(df.rows, "country")) :
                insights' = InsightsSummary(df.rows, cats, countries)
    /\ pc' = "an_summarized"
    /\ UNCHANGED <<articles, topic, research, session, enrich, stats, chunks, status_callback, filtered, batch_idx,
                   prompt, calls, response, startups, all_startups, outcomes,
                   messages, result, n_clusters, an_input, df>>

----------------------------------------------------------------------------
(* AnalysisAgent.get_summary_stats *)

\* the mapping `{}`
EmptyStats == [k \in {} |-> 0]

SummaryStats(frame) ==
    IF NoAnalyzedData(frame) THEN EmptyStats
    ELSE [total_startups |-> Len(frame.rows),
          unique_countries |-> NUnique(Column(frame.rows, "country")),
          unique_categories |-> NUnique(Column(frame.rows, "category")),
          clusters |-> NUnique(Column(frame.rows, "cluster"))]

GetSummaryStats ==
    /\ pc \in {"an_idle", "an_returned"}
    /\ stats' = [set |-> TRUE, value |-> SummaryStats(df)]
    /\ pc' = "an_stats"
    /\ UNCHANGED <<articles, topic, research, session, enrich, chunks, insights,
                   status_callback, filtered, batch_idx, prompt, calls, response,
                   startups, all_startups, outcomes, messages, result,
                   n_clusters, an_input, df>>

\* a further call of analyze on the same agent, with a new argument
AnalyzeAgain ==
    /\ pc = "an_returned"
    /\ \E input \in SeqsUpTo(RecordKinds, MaxReuse) : an_input' = input
    /\ pc' = "an_idle"
    /\ result' = NoResult
    /\ outcomes' = <<>>
    /\ messages' = <<>>
    /\ UNCHANGED <<articles, topic, research, session, enrich, stats, chunks, insights,
                   status_callback, filtered, batch_idx, prompt, calls, response,
                   startups, all_startups, n_clusters, df>>

----------------------------------------------------------------------------
(* EnrichmentAgent.enrich_startups *)

LongDescription == 100

FBool(b) == [ty |-> "bool", v |-> IF b THEN <<"True">> ELSE <<"False">>]

Repeat(c, n) == [i \in 1..n |-> c]

\* a startup dict as enrich_startups sees it: the four text fields, and the
\* optional keys `url` and `enriched`
Startup(rec, url) ==
    [name |-> rec.name, description |-> rec.description,
     country |-> rec.country, category |-> rec.category,
     url |-> url, enriched |-> Absent]

\* a record appended by extract_startups: it has exactly the four text keys
FromExtraction(rec) == Startup(rec, Absent)

\* the skip test ignoring the url
SkipsOnlyLong(startup) ==
    startup.description # <<>> /\ Len(startup.description) > LongDescription

\* if not url or (startup.get('description') and len(...) > 100)
Skips(startup) ==
    \/ ~Truthy(Get(startup.url, FStr(<<>>)))
    \/ (startup.description # <<>> /\ Len(startup.description) > LongDescription)

\* what _scrape_website_description can return: None, or a text of more
\* than 50 and at most 500 characters
NoDescription == [ty |-> "null", v |-> <<>>]
ScrapeResults == {NoDescription, FStr(Repeat("s", 51))}

\* the body of one pass for a record that is not skipped
Scraped(startup, description) ==
    IF Truthy(description)
    THEN [startup EXCEPT !.description = description.v, !.enriched = FBool(TRUE)]
    ELSE [startup EXCEPT !.enriched = FBool(FALSE)]

EnrichedCount(enriched) ==
    Cardinality({i \in DOMAIN enriched : enriched[i].enriched = FBool(TRUE)})

\* the state of a call at its entry
EnrichCall(list) ==
    [startups |-> list, given |-> list, idx |-> 0,
     enriched |-> <<>>, requests |-> <<>>]

EnrichStart ==
    /\ pc = "en_idle"
    /\ messages' = UpdateStatus(messages, status_callback, Msg("enrich_start", 0, 0, ""))
    /\ pc' = "en_loop"
    /\ UNCHANGED <<articles, topic, research, session, enrich, stats, chunks, insights,
                   status_callback, filtered, batch_idx, prompt, calls, response,
                   startups, all_startups, outcomes, result,
                   n_clusters, an_input, df>>

EnrichSkip ==
    /\ pc = "en_loop"
    /\ enrich.idx < Len(enrich.startups)
    /\ LET idx == enrich.idx + 1
           startup == enrich.startups[idx]
       IN  /\ Skips(startup)
           /\ enrich' = [enrich EXCEPT !.idx = idx,
                                       !.enriched = Append(@, startup)]
    /\ UNCHANGED <<articles, topic, research, session, stats, chunks, insights,
                   status_callback, pc, filtered, batch_idx, prompt, calls, response,
                   startups, all_startups, outcomes, messages, result,
                   n_clusters, an_input, df>>

EnrichScrape ==
    /\ pc = "en_loop"
    /\ enrich.idx < Len(enrich.startups)
    /\ LET idx == enrich.idx + 1
           startup == enrich.startups[idx]
       IN  /\ ~Skips(startup)
           /\ \E description \in ScrapeResults :
                 LET after == Scraped(startup, description)
                 IN  /\ enrich' = [enrich EXCEPT !.idx = idx,
                                                 !.startups[idx] = after,
                                                 !.enriched = Append(@, after),
                                                 !.requests = Append(@, idx)]
                     /\ messages' = UpdateAll(messages, status_callback,
                          << Msg("enriching", idx, Len(enrich.startups), ""),
                             Msg(IF Truthy(description) THEN "enriched"
                                 ELSE "not_enriched", idx, 0, "") >>)
    /\ UNCHANGED <<articles, topic, research, session, stats, chunks, insights,
                   status_callback, pc, filtered, batch_idx, prompt, calls, response,
                   startups, all_startups, outcomes, result,
                   n_clusters, an_input, df>>

EnrichFinish ==
    /\ pc = "en_loop"
    /\ enrich.idx = Len(enrich.startups)
    /\ messages' = UpdateStatus(messages, status_callback,
                                Msg("enrich_complete", EnrichedCount(enrich.enriched),
                                    Len(enrich.startups), ""))
    /\ result' = Returned(enrich.enriched)
    /\ pc' = "en_returned"
    /\ UNCHANGED <<articles, topic, research, session, enrich, stats, chunks, insights,
                   status_callback, filtered, batch_idx, prompt, calls, response,
                   startups, all_startups, outcomes,
                   n_clusters, an_input, df>>

----------------------------------------------------------------------------
(* ResearchAgent.fetch_all_sources *)

GeneralStartups == "General Startups"

\* config.FEEDS_BY_TOPIC, with two of its six categories and the feed lists
\* cut to their first entries
FEEDS_BY_TOPIC ==
    [c \in {GeneralStartups, "AI & DeepTech"} |->
        IF c = GeneralStartups THEN <<"general-1", "general-2">>
        ELSE <<"ai-1">>]

\* an article as _fetch_rss_feed and _load_openvc_dataset build it
SourceArticle(source) ==
    [title |-> <<"t">>, url |-> <<"u">>,
     content |-> <<"A", "I", " ">> \o Repeat("c", 48),
     published |-> <<"p">>, source |-> source]

\* what _fetch_rss_feed can return for a feed: its articles, or nothing
\* after a parse error or an exception
FeedResults(feed_url) ==
    { [how |-> "ok", articles |-> <<>>],
      [how |-> "ok", articles |-> << SourceArticle(feed_url) >>],
      [how |-> "bozo", articles |-> <<>>],
      [how |-> "error", articles |-> <<>>] }

\* what _load_openvc_dataset can return
OpenVCResults ==
    { [how |-> "ok", articles |-> <<>>],
      [how |-> "ok", articles |-> << SourceArticle("OpenVC") >>],
      [how |-> "error", articles |-> <<>>] }

Unbound == [bound |-> FALSE, n |-> 0]
Bound(n) == [bound |-> TRUE, n |-> n]

\* the state of a call at its entry
ResearchCall(feed_category, include_openvc) ==
    [feed_category |-> feed_category, include_openvc |-> include_openvc,
     feeds |-> <<>>, next |-> 1, all_data |-> <<>>,
     rss_count |-> Unbound, openvc_count |-> 0]

\* if feed_category in FEEDS_BY_TOPIC
KnownCategory(feed_category) == feed_category \in DOMAIN FEEDS_BY_TOPIC

ResearchStart ==
    /\ pc = "rs_idle"
    /\ LET cat == research.feed_category
           known == cat \in DOMAIN FEEDS_BY_TOPIC
           feeds == IF known THEN FEEDS_BY_TOPIC[cat]
                    ELSE FEEDS_BY_TOPIC[GeneralStartups]
       IN  /\ research' = [research EXCEPT !.feeds = feeds]
           /\ messages' = UpdateAll(messages, status_callback,
                << Msg("research_start", 0, 0, cat),
                   IF known THEN Msg("loading_feeds", Len(feeds), 0, cat)
                   ELSE Msg("unknown_category", 0, 0, cat) >>)
    /\ pc' = "rs_feeds"
    /\ UNCHANGED <<articles, topic, session, enrich, stats, chunks, insights,
                   status_callback, filtered, batch_idx, prompt, calls, response,
                   startups, all_startups, outcomes, result,
                   n_clusters, an_input, df>>

ResearchFetchFeed ==
    /\ pc = "rs_feeds"
    /\ research.next <= Len(research.feeds)
    /\ \E fetched \in FeedResults(research.feeds[research.next]) :
          /\ research' = [research EXCEPT !.next = @ + 1,
                                          !.all_data = @ \o fetched.articles]
          /\ messages' = UpdateAll(messages, status_callback,
                << Msg("fetching", 0, 0, research.feeds[research.next]),
                   IF fetched.how = "ok"
                   THEN Msg("fetched", Len(fetched.articles), 0, "")
                   ELSE Msg("feed_error", 0, 0, fetched.how) >>)
    /\ UNCHANGED <<articles, topic, session, enrich, stats, chunks, insights,
                   status_callback, pc, filtered, batch_idx, prompt, calls, response,
                   startups, all_startups, outcomes, result,
                   n_clusters, an_input, df>>

ResearchFeedsDone ==
    /\ pc = "rs_feeds"
    /\ research.next > Len(research.feeds)
    /\ IF KnownCategory(research.feed_category)
       THEN /\ research' = [research EXCEPT !.rss_count = Bound(Len(research.all_data))]
            /\ messages' = UpdateStatus(messages, status_callback,
                                        Msg("collected", Len(research.all_data), 0, ""))
       ELSE UNCHANGED <<research, messages>>
    /\ pc' = "rs_openvc"
    /\ UNCHANGED <<articles, topic, session, enrich, stats, chunks, insights,
                   status_callback, filtered, batch_idx, prompt, calls, response,
                   startups, all_startups, outcomes, result,
                   n_clusters, an_input, df>>

ResearchOpenVC ==
    /\ pc = "rs_openvc"
    /\ IF research.include_openvc
       THEN \E loaded \in OpenVCResults :
              /\ research' = [research EXCEPT !.all_data = @ \o loaded.articles,
                                              !.openvc_count = Len(loaded.articles)]
              /\ messages' = UpdateAll(messages, status_callback,
                    << Msg("openvc_loading", 0, 0, ""),
                       IF loaded.how = "ok"
                       THEN Msg("openvc_loaded", Len(loaded.articles), 0, "")
                       ELSE Msg("openvc_error", 0, 0, ""),
                       Msg("openvc_added", Len(loaded.articles), 0, "") >>)
       ELSE UNCHANGED <<research, messages>>
    /\ pc' = "rs_save"
    /\ UNCHANGED <<articles, topic, session, enrich, stats, chunks, insights,
                   status_callback, filtered, batch_idx, prompt, calls, response,
                   startups, all_startups, outcomes, result,
                   n_clusters, an_input, df>>

\* _save_articles, then the closing message and the return; formatting the
\* message reads rss_count whether or not a callback is installed
ResearchFinish ==
    /\ pc = "rs_save"
    /\ \E saved \in BOOLEAN :
          LET m1 == UpdateStatus(messages, status_callback,
                        IF saved THEN Msg("saved", Len(research.all_data), 0, "")
                        ELSE Msg("save_error", 0, 0, ""))
          IN  IF research.rss_count.bound
              THEN /\ messages' = UpdateStatus(m1, status_callback,
                                       Msg("research_complete", Len(research.all_data),
                                           research.rss_count.n, ""))
                   /\ result' = Returned(research.all_data)
                   /\ pc' = "rs_returned"
              ELSE /\ messages' = m1
                   /\ result' = Raised("UnboundLocalError")
                   /\ pc' = "rs_raised"
    /\ UNCHANGED <<articles, topic, research, session, enrich, stats, chunks, insights,
                   status_callback, filtered, batch_idx, prompt, calls, response,
                   startups, all_startups, outcomes,
                   n_clusters, an_input, df>>

----------------------------------------------------------------------------
(* Specifications *)

DefaultClusters == 5
NoFrame == [set |-> FALSE, rows |-> <<>>]

\* operations that have not been called
NoStats == [set |-> FALSE, value |-> [k \in {} |-> 0]]
NoResearch == [pc |-> "none"]
NoEnrich == [pc |-> "none"]
NoSession == [pc |-> "none"]

Init ==
    /\ articles \in ArticleLists
    /\ topic = "AI"
    /\ status_callback \in BOOLEAN
    /\ pc = "idle"
    /\ filtered = <<>>
    /\ batch_idx = 0
    /\ prompt = NoPrompt
    /\ calls = 0
    /\ response = <<>>
    /\ startups = JNone
    /\ all_startups = <<>>
    /\ outcomes = <<>>
    /\ messages = <<>>
    /\ result = NoResult
    /\ n_clusters = DefaultClusters
    /\ an_input = <<>>
    /\ df = NoFrame
    /\ stats = NoStats
    /\ research = NoResearch
    /\ enrich = NoEnrich
    /\ session = NoSession
    /\ chunks = <<>>
    /\ insights = <<>>

Next ==
    \/ ExtractStart
    \/ BatchBegin
    \/ OllamaReturns
    \/ OllamaExitsNonZero
    \/ OllamaTimesOut
    \/ OllamaNotFound
    \/ OllamaDecodeError
    \/ ExtractFinish

Spec == Init /\ [][Next]_vars

\* _extract_json_from_response applied to every short token sequence
ParseTokens == {"[", "]", ",", "s", "w", "n", "o1", "qL", "qR"}

ParseResponse ==
    /\ pc = "parse"
    /\ startups' = ExtractJsonFromResponse(response)
    /\ pc' = "parsed"
    /\ UNCHANGED <<articles, topic, research, session, enrich, stats, chunks, insights, status_callback, filtered, batch_idx, prompt,
                   calls, response, all_startups, outcomes, messages, result,
                   n_clusters, an_input, df>>

InitParse ==
    /\ response \in SeqsUpTo(ParseTokens, MaxRespLen)
    /\ pc = "parse"
    /\ articles = <<>>
    /\ topic = "AI"
    /\ status_callback = FALSE
    /\ filtered = <<>>
    /\ batch_idx = 0
    /\ prompt = NoPrompt
    /\ calls = 0
    /\ startups = JNone
    /\ all_startups = <<>>
    /\ outcomes = <<>>
    /\ messages = <<>>
    /\ result = NoResult
    /\ n_clusters = DefaultClusters
    /\ an_input = <<>>
    /\ df = NoFrame
    /\ stats = NoStats
    /\ research = NoResearch
    /\ enrich = NoEnrich
    /\ session = NoSession
    /\ chunks = <<>>
    /\ insights = <<>>

NextParse == ParseResponse

SpecParse == InitParse /\ [][NextParse]_vars

\* analyze applied to every short list of records and every target
InitAnalyze ==
    /\ an_input \in SeqsUpTo(RecordKinds, MaxRecords)
    /\ n_clusters \in 1..MaxK
    /\ status_callback \in BOOLEAN
    /\ pc = "an_idle"
    /\ articles = <<>>
    /\ topic = "AI"
    /\ filtered = <<>>
    /\ batch_idx = 0
    /\ prompt = NoPrompt
    /\ calls = 0
    /\ response = <<>>
    /\ startups = JNone
    /\ all_startups = <<>>
    /\ outcomes = <<>>
    /\ messages = <<>>
    /\ result = NoResult
    /\ df = NoFrame
    /\ stats = NoStats
    /\ research = NoResearch
    /\ enrich = NoEnrich
    /\ session = NoSession
    /\ chunks = <<>>
    /\ insights = <<>>

NextAnalyze ==
    \/ AnalyzeEmpty
    \/ AnalyzeUnclustered
    \/ AnalyzeClustered
    \/ AnalyzeClusteringFails
    \/ GenerateInsights

SpecAnalyze == InitAnalyze /\ [][NextAnalyze]_vars

\* any number of analyze calls on one agent that never reaches k-means,
\* then generate_insights_summary or get_summary_stats
InitReuse ==
    /\ an_input \in SeqsUpTo(RecordKinds, MaxReuse)
    /\ n_clusters = 1
    /\ status_callback = FALSE
    /\ pc = "an_idle"
    /\ articles = <<>>
    /\ topic = "AI"
    /\ filtered = <<>>
    /\ batch_idx = 0
    /\ prompt = NoPrompt
    /\ calls = 0
    /\ response = <<>>
    /\ startups = JNone
    /\ all_startups = <<>>
    /\ outcomes = <<>>
    /\ messages = <<>>
    /\ result = NoResult
    /\ df = NoFrame
    /\ stats = NoStats
    /\ research = NoResearch
    /\ enrich = NoEnrich
    /\ session = NoSession
    /\ chunks = <<>>
    /\ insights = <<>>

NextReuse ==
    \/ AnalyzeEmpty
    \/ AnalyzeUnclustered
    \/ AnalyzeAgain
    \/ GenerateInsights
    \/ GetSummaryStats

SpecReuse == InitReuse /\ [][NextReuse]_vars

\* one call of enrich_startups: on records as extract_startups appends them
\* and on records that carry a url or a long description
EnrichKinds ==
    LET short == Record(<<"A">>, <<"d">>, <<"U", "S">>, <<"A", "I">>)
        at100 == Record(<<"B">>, Repeat("x", LongDescription), <<"U", "S">>, <<"A", "I">>)
        long == Record(<<"C">>, Repeat("x", LongDescription + 1), <<"D", "E">>, <<"A", "I">>)
        site == FStr(<<"h">>)
    IN  { FromExtraction(short), FromExtraction(long),
          Startup(short, FStr(<<>>)),
          Startup(short, site), Startup(at100, site), Startup(long, site) }

InitEnrich ==
    /\ \E input \in SeqsUpTo(EnrichKinds, MaxEnrich) : enrich = EnrichCall(input)
    /\ status_callback \in BOOLEAN
    /\ pc = "en_idle"
    /\ an_input = <<>>
    /\ n_clusters = DefaultClusters
    /\ articles = <<>>
    /\ topic = "AI"
    /\ filtered = <<>>
    /\ batch_idx = 0
    /\ prompt = NoPrompt
    /\ calls = 0
    /\ response = <<>>
    /\ startups = JNone
    /\ all_startups = <<>>
    /\ outcomes = <<>>
    /\ messages = <<>>
    /\ result = NoResult
    /\ df = NoFrame
    /\ stats = NoStats
    /\ research = NoResearch
    /\ session = NoSession
    /\ chunks = <<>>
    /\ insights = <<>>

NextEnrich ==
    \/ EnrichStart
    \/ EnrichSkip
    \/ EnrichScrape
    \/ EnrichFinish

SpecEnrich == InitEnrich /\ [][NextEnrich]_vars

\* one call of fetch_all_sources, with a known or an unknown category
Categories == DOMAIN FEEDS_BY_TOPIC \cup {"Quantum"}

InitResearch ==
    /\ \E c \in Categories, o \in BOOLEAN : research = ResearchCall(c, o)
    /\ status_callback \in BOOLEAN
    /\ pc = "rs_idle"
    /\ an_input = <<>>
    /\ n_clusters = DefaultClusters
    /\ articles = <<>>
    /\ topic = "AI"
    /\ filtered = <<>>
    /\ batch_idx = 0
    /\ prompt = NoPrompt
    /\ calls = 0
    /\ response = <<>>
    /\ startups = JNone
    /\ all_startups = <<>>
    /\ outcomes = <<>>
    /\ messages = <<>>
    /\ result = NoResult
    /\ df = NoFrame
    /\ stats = NoStats
    /\ enrich = NoEnrich
    /\ session = NoSession
    /\ chunks = <<>>
    /\ insights = <<>>

NextResearch ==
    \/ ResearchStart
    \/ ResearchFetchFeed
    \/ ResearchFeedsDone
    \/ ResearchOpenVC
    \/ ResearchFinish

SpecResearch == InitResearch /\ [][NextResearch]_vars

\* one call of either agent: extract_startups or analyze
InitCalls == Init \/ InitAnalyze

NextCalls == Next \/ NextAnalyze

SpecCalls == InitCalls /\ [][NextCalls]_vars

\* the scan of app.py from the extraction step on: extract_startups over the
\* fetched articles, then analyze over what it returned
AppClusters == 6

\* `if not startups: ... st.stop()`
ScanStops ==
    /\ pc = "returned"
    /\ result.value = <<>>
    /\ pc' = "stopped"
    /\ UNCHANGED <<articles, topic, research, session, enrich, stats, chunks, insights, status_callback, filtered, batch_idx,
                   prompt, calls, response, startups, all_startups, outcomes,
                   messages, result, n_clusters, an_input, df>>

\* analysis_agent.analyze(startups) is entered with the extracted records
ScanAnalyze ==
    /\ pc = "returned"
    /\ result.value # <<>>
    /\ an_input' = result.value
    /\ pc' = "an_idle"
    /\ UNCHANGED <<articles, topic, research, session, enrich, stats, chunks, insights, status_callback, filtered, batch_idx,
                   prompt, calls, response, startups, all_startups, outcomes,
                   messages, result, n_clusters, df>>

InitScan ==
    /\ articles \in SeqsUpTo(ScanArticles, MaxPrefix) \ {<<>>}
    /\ topic = "AI"
    /\ status_callback = TRUE
    /\ pc = "idle"
    /\ filtered = <<>>
    /\ batch_idx = 0
    /\ prompt = NoPrompt
    /\ calls = 0
    /\ response = <<>>
    /\ startups = JNone
    /\ all_startups = <<>>
    /\ outcomes = <<>>
    /\ messages = <<>>
    /\ result = NoResult
    /\ n_clusters = AppClusters
    /\ an_input = <<>>
    /\ df = NoFrame
    /\ stats = NoStats
    /\ research = NoResearch
    /\ enrich = NoEnrich
    /\ session = NoSession
    /\ chunks = <<>>
    /\ insights = <<>>

NextScan ==
    \/ ExtractStart
    \/ BatchBegin
    \/ OllamaReturns
    \/ OllamaExitsNonZero
    \/ OllamaTimesOut
    \/ OllamaNotFound
    \/ OllamaDecodeError
    \/ ExtractFinish
    \/ ScanStops
    \/ ScanAnalyze
    \/ AnalyzeUnclustered

SpecScan == InitScan /\ [][NextScan]_vars

\* analyze, then generate_insights_summary, on records of three categories
\* and four countries; with a target of one cluster k-means never runs
InsightRecords ==
    { Record(<<"a">>, <<"d">>, <<"U", "S">>, <<"A", "I">>),
      Record(<<"b">>, <<"d">>, <<"D", "E">>, <<"A", "I">>),
      Record(<<"c">>, <<"d">>, <<"U", "S">>, <<"A", "I">>),
      Record(<<"d">>, <<"d">>, <<"F", "R">>, <<"F", "i">>),
      Record(<<"e">>, <<"d">>, <<"J", "P">>, <<"C", "l">>) }

InitInsights ==
    /\ an_input \in SeqsUpTo(InsightRecords, MaxRows)
    /\ n_clusters = 1
    /\ status_callback = FALSE
    /\ pc = "an_idle"
    /\ articles = <<>>
    /\ topic = "AI"
    /\ filtered = <<>>
    /\ batch_idx = 0
    /\ prompt = NoPrompt
    /\ calls = 0
    /\ response = <<>>
    /\ startups = JNone
    /\ all_startups = <<>>
    /\ outcomes = <<>>
    /\ messages = <<>>
    /\ result = NoResult
    /\ df = NoFrame
    /\ stats = NoStats
    /\ research = NoResearch
    /\ enrich = NoEnrich
    /\ session = NoSession
    /\ chunks = <<>>
    /\ insights = <<>>

NextInsights ==
    \/ AnalyzeEmpty
    \/ AnalyzeUnclustered
    \/ GenerateInsights

SpecInsights == InitInsights /\ [][NextInsights]_vars

----------------------------------------------------------------------------
(* app.py: session state and the scan workflow of the analysis tab *)

NotStored == [set |-> FALSE, value |-> <<>>]
Stored(v) == [set |-> TRUE, value |-> v]

\* the sidebar's settings that the workflow reads
Configs ==
    [feed_category : DOMAIN FEEDS_BY_TOPIC,
     include_openvc : BOOLEAN,
     enable_enrichment : BOOLEAN]

\* st.session_state after its initialization; `notice` is what the last
\* scan surfaced (st.error, st.warning, st.exception) and `stages` the
\* agents it has invoked so far
InitialSession(config) ==
    [should_run_scan |-> FALSE, scan_completed |-> FALSE,
     results |-> NotStored, analysis_df |-> NoFrame, insights_summary |-> <<>>,
     config_values |-> config, notice |-> "none", stages |-> <<>>]

\* the sidebar status "Running VentAI..." and sidebar_disabled
Running(ss) == ss.should_run_scan /\ ~ss.scan_completed

\* st.error / st.warning followed by st.stop(), or the except branch: the
\* notice is shown and the script run ends with the flags as they are
SurfaceAndEnd(ss, notice) == [ss EXCEPT !.notice = notice]

\* an article of fetch_all_sources as extract_startups reads it
ToArticle(a) == Article(FStr(a.title), Absent, FStr(a.content))

\* a record of enrich_startups as analyze reads it (no key but the four
\* text keys is present on a record that was not scraped)
ToRecord(st) == Record(st.name, st.description, st.country, st.category)

\* Run Research pressed with a topic typed in; the sidebar widgets are
\* disabled while a scan counts as running
AppTrigger ==
    /\ pc = "app_idle"
    /\ \E config \in IF Running(session) THEN {session.config_values} ELSE Configs :
          session' = [session EXCEPT !.config_values = config,
                                     !.scan_completed = FALSE,
                                     !.should_run_scan = TRUE,
                                     !.notice = "none",
                                     !.stages = <<>>]
    /\ topic' = "AI"
    /\ pc' = "app_scan"
    /\ UNCHANGED <<articles, research, enrich, stats, chunks, insights,
                   status_callback, filtered, batch_idx, prompt, calls, response,
                   startups, all_startups, outcomes, messages, result,
                   n_clusters, an_input, df>>

\* any other interaction reruns the script; the scan block is entered
\* again whenever the flags still say running
AppRerun ==
    /\ pc = "app_idle"
    /\ topic # ""
    /\ Running(session)
    /\ pc' = "app_scan"
    /\ UNCHANGED <<articles, topic, research, session, enrich, stats, chunks, insights,
                   status_callback, filtered, batch_idx, prompt, calls, response,
                   startups, all_startups, outcomes, messages, result,
                   n_clusters, an_input, df>>

\* Step 1: a new ResearchAgent is called with the configured category
AppResearch ==
    /\ pc = "app_scan"
    /\ session' = [session EXCEPT !.notice = "none", !.stages = <<"research">>]
    /\ research' = ResearchCall(session.config_values.feed_category,
                                session.config_values.include_openvc)
    /\ status_callback' = TRUE
    /\ n_clusters' = AppClusters
    /\ articles' = <<>>
    /\ enrich' = NoEnrich
    /\ chunks' = <<>>
    /\ insights' = <<>>
    /\ filtered' = <<>>
    /\ batch_idx' = 0
    /\ prompt' = NoPrompt
    /\ calls' = 0
    /\ response' = <<>>
    /\ startups' = JNone
    /\ all_startups' = <<>>
    /\ outcomes' = <<>>
    /\ messages' = <<>>
    /\ result' = NoResult
    /\ an_input' = <<>>
    /\ df' = NoFrame
    /\ pc' = "rs_idle"
    /\ UNCHANGED <<topic, stats>>

\* if not articles: st.error(...); st.stop()
AppNoData ==
    /\ pc = "rs_returned"
    /\ result.value = <<>>
    /\ session' = SurfaceAndEnd(session, "error")
    /\ pc' = "app_idle"
    /\ UNCHANGED <<articles, topic, research, enrich, stats, chunks, insights,
                   status_callback, filtered, batch_idx, prompt, calls, response,
                   startups, all_startups, outcomes, messages, result,
                   n_clusters, an_input, df>>

\* Step 2: a new ExtractionAgent is called with the articles; `messages`
\* is from here on the list of the extraction callback
AppExtract ==
    /\ pc = "rs_returned"
    /\ result.value # <<>>
    /\ articles' = [i \in DOMAIN result.value |-> ToArticle(result.value[i])]
    /\ session' = [session EXCEPT !.stages = Append(@, "extraction")]
    /\ messages' = <<>>
    /\ result' = NoResult
    /\ pc' = "idle"
    /\ UNCHANGED <<topic, research, enrich, stats, chunks, insights,
                   status_callback, filtered, batch_idx, prompt, calls, response,
                   startups, all_startups, outcomes, n_clusters, an_input, df>>

\* if not startups: st.warning(...); st.stop()
AppNoStartups ==
    /\ pc = "returned"
    /\ result.value = <<>>
    /\ session' = SurfaceAndEnd(session, "warning")
    /\ pc' = "app_idle"
    /\ UNCHANGED <<articles, topic, research, enrich, stats, chunks, insights,
                   status_callback, filtered, batch_idx, prompt, calls, response,
                   startups, all_startups, outcomes, messages, result,
                   n_clusters, an_input, df>>

\* Step 3: if config_enrichment, a new EnrichmentAgent is called
AppEnrich ==
    /\ pc = "returned"
    /\ result.value # <<>>
    /\ session.config_values.enable_enrichment
    /\ enrich' = EnrichCall([i \in DOMAIN result.value |->
                                FromExtraction(result.value[i])])
    /\ session' = [session EXCEPT !.stages = Append(@, "enrichment")]
    /\ messages' = <<>>
    /\ result' = NoResult
    /\ pc' = "en_idle"
    /\ UNCHANGED <<articles, topic, research, stats, chunks, insights,
                   status_callback, filtered, batch_idx, prompt, calls, response,
                   startups, all_startups, outcomes, n_clusters, an_input, df>>

\* Step 4: a new AnalysisAgent is called with the startups, which are the
\* extracted records or what enrich_startups returned for them
AppAnalyze ==
    /\ \/ /\ pc = "returned"
          /\ result.value # <<>>
          /\ ~session.config_values.enable_enrichment
          /\ an_input' = result.value
       \/ /\ pc = "en_returned"
          /\ an_input' = [i \in DOMAIN result.value |-> ToRecord(result.value[i])]
    /\ session' = [session EXCEPT !.stages = Append(@, "analysis")]
    /\ messages' = <<>>
    /\ result' = NoResult
    /\ pc' = "an_idle"
    /\ UNCHANGED <<articles, topic, research, enrich, stats, chunks, insights,
                   status_callback, filtered, batch_idx, prompt, calls, response,
                   startups, all_startups, outcomes, n_clusters, df>>

\* insights_summary = analysis_agent.generate_insights_summary()
AppInsights ==
    /\ pc = "an_returned"
    /\ GenerateInsights

\* save_results writes the JSON file, which can fail; the session is
\* updated after it, and an exception reaches the except branch instead
AppSave ==
    /\ pc = "an_summarized"
    /\ \E saved \in BOOLEAN :
          session' = IF saved
                     THEN [session EXCEPT !.results = Stored(an_input),
                                          !.analysis_df = df,
                                          !.insights_summary = insights,
                                          !.scan_completed = TRUE,
                                          !.should_run_scan = FALSE]
                     ELSE SurfaceAndEnd(session, "exception")
    /\ pc' = "app_idle"
    /\ UNCHANGED <<articles, topic, research, enrich, stats, chunks, insights,
                   status_callback, filtered, batch_idx, prompt, calls, response,
                   startups, all_startups, outcomes, messages, result,
                   n_clusters, an_input, df>>

\* the app: scans started from the page, each running the four agents
InitApp ==
    /\ \E config \in Configs : session = InitialSession(config)
    /\ topic = ""
    /\ pc = "app_idle"
    /\ status_callback = TRUE
    /\ n_clusters = AppClusters
    /\ articles = <<>>
    /\ an_input = <<>>
    /\ filtered = <<>>
    /\ batch_idx = 0
    /\ prompt = NoPrompt
    /\ calls = 0
    /\ response = <<>>
    /\ startups = JNone
    /\ all_startups = <<>>
    /\ outcomes = <<>>
    /\ messages = <<>>
    /\ result = NoResult
    /\ df = NoFrame
    /\ stats = NoStats
    /\ research = NoResearch
    /\ enrich = NoEnrich
    /\ chunks = <<>>
    /\ insights = <<>>

\* the steps of one script run, which the script takes by itself
ScanStep ==
    \/ AppResearch
    \/ ResearchStart
    \/ ResearchFetchFeed
    \/ ResearchFeedsDone
    \/ ResearchOpenVC
    \/ ResearchFinish
    \/ AppNoData
    \/ AppExtract
    \/ ExtractStart
    \/ BatchBegin
    \/ OllamaReturns
    \/ OllamaExitsNonZero
    \/ OllamaTimesOut
    \/ OllamaNotFound
    \/ OllamaDecodeError
    \/ ExtractFinish
    \/ AppNoStartups
    \/ AppEnrich
    \/ EnrichStart
    \/ EnrichSkip
    \/ EnrichFinish
    \/ AppAnalyze
    \/ AnalyzeUnclustered
    \/ AppInsights
    \/ AppSave

NextApp ==
    \/ AppTrigger
    \/ AppRerun
    \/ ScanStep

SpecApp == InitApp /\ [][NextApp]_vars

\* a script run that has started goes on to its end; the user's actions
\* are not forced
SpecAppFair == SpecApp /\ WF_vars(ScanStep)

----------------------------------------------------------------------------
(* Claims about extract_startups and _extract_json_from_response *)

RECURSIVE ConcatRecs(_)
ConcatRecs(outs) ==
    IF outs = <<>> THEN <<>> ELSE Head(outs).recs \o ConcatRecs(Tail(outs))

\* number of delivered messages of one kind about batch i
CountMsgs(kind, i) ==
    Cardinality({j \in 1..Len(messages) : messages[j].kind = kind /\ messages[j].a = i})

\* every batch was invoked once and the call returned the batches' records
RanToEnd ==
    /\ Len(outcomes) = TotalBatches(Len(filtered))
    /\ calls = Len(outcomes)
    /\ result = Returned(ConcatRecs(outcomes))

\* C1: a batch whose invocation times out or exits non-zero contributes no
\* record and one error message; the later batches are still invoked and
\* extract_startups returns the other batches' records without raising.
C1_FailedBatchSkipped ==
    /\ result.kind # "raised"
    /\ \A i \in 1..Len(outcomes) :
          outcomes[i].how \in {"timeout", "nonzero"} =>
              /\ outcomes[i].recs = <<>>
              /\ status_callback => CountMsgs("error", i) = 1
              /\ pc = "returned" => RanToEnd

C1_Witness ==
    /\ pc = "returned"
    /\ status_callback
    /\ Len(outcomes) = 2
    /\ outcomes[1].how \in {"timeout", "nonzero"}
    /\ outcomes[2].how = "ok"
    /\ outcomes[2].recs # <<>>
    /\ result.value = outcomes[2].recs

IsArrayOfObjects(a) ==
    /\ a # <<>>
    /\ Head(a) = "["
    /\ LET d == JsonLoads(a)
       IN  /\ d.ok
           /\ d.val.kind = "arr"
           /\ d.val.items # <<>>
           /\ \A k \in 1..Len(d.val.items) : d.val.items[k].kind = "obj"

\* C3 as stated: whenever the response is P + A + S for a valid JSON array A
\* of objects, _extract_json_from_response returns exactly A.
C3_EmbeddedArrayRecovered ==
    pc = "parsed" =>
        \A i \in 1..Len(response) : \A j \in i..Len(response) :
            IsArrayOfObjects(SubSeq(response, i, j)) =>
                startups = JsonLoads(SubSeq(response, i, j)).val

\* no "[" with a "]" somewhere after it
NoBracketPair(resp) ==
    ~\E i \in 1..Len(resp) : \E j \in (i + 1)..Len(resp) :
        resp[i] = "[" /\ resp[j] = "]"

\* C4: a response without a bracket-delimited array parses to None without
\* raising; its batch contributes no record and the loop goes on.
C4_NoArrayNoRecords ==
    \A i \in 1..Len(outcomes) :
        (outcomes[i].how = "ok" /\ NoBracketPair(outcomes[i].response)) =>
            /\ outcomes[i].parsed = JNone
            /\ outcomes[i].recs = <<>>
            /\ result.kind # "raised"
            /\ status_callback => (CountMsgs("none", i) = 1 /\ CountMsgs("error", i) = 0)
            /\ pc = "returned" => RanToEnd

C4_Witness ==
    /\ pc = "returned"
    /\ Len(outcomes) = 2
    /\ outcomes[1].how = "ok"
    /\ NoBracketPair(outcomes[1].response)
    /\ outcomes[1].response # <<>>
    /\ outcomes[2].how = "ok"
    /\ outcomes[2].recs # <<>>

\* C5 as stated: every record extract_startups returns has a non-empty name.
C5_NamesNonEmpty ==
    result.kind = "returned" =>
        \A i \in 1..Len(result.value) : result.value[i].name # <<>>

----------------------------------------------------------------------------
(* Claims about analyze *)

AnalyzeReturned == pc = "an_returned" /\ an_input # <<>>

Unclustered(rows) ==
    [i \in 1..Len(rows) |->
        Record(rows[i].name, rows[i].description, rows[i].country, rows[i].category)]

SameNameIgnoringCase(a, b) == Lower(a.name) = Lower(b.name)

Labels(rows) == {rows[i].cluster : i \in 1..Len(rows)}

\* C6: deduplication never lengthens the list, and no two surviving records
\* have names that are equal ignoring case.
C6_DedupShrinks ==
    AnalyzeReturned =>
        /\ Len(result.value) <= Len(an_input)
        /\ \A i \in 1..Len(result.value) : \A j \in (i + 1)..Len(result.value) :
               ~SameNameIgnoringCase(result.value[i], result.value[j])

C6_Witness ==
    /\ AnalyzeReturned
    /\ Len(result.value) < Len(an_input)
    /\ \E i \in 1..Len(an_input) : \E j \in (i + 1)..Len(an_input) :
           /\ SameNameIgnoringCase(an_input[i], an_input[j])
           /\ an_input[i].name # an_input[j].name

\* positions of the input whose name, ignoring case, occurs at no earlier position
FirstPositions(input) ==
    {i \in 1..Len(input) :
        \A j \in 1..(i - 1) : ~SameNameIgnoringCase(input[j], input[i])}

\* the r-th smallest element of a set of positions
NthOf(S, r) == CHOOSE i \in S : Cardinality({j \in S : j <= i}) = r

\* C7: deduplication keeps, for each name ignoring case, exactly the first
\* record carrying it, in the input's relative order.
C7_DedupKeepsFirst ==
    AnalyzeReturned =>
        LET keep == FirstPositions(an_input)
            rows == Unclustered(result.value)
        IN  /\ Len(rows) = Cardinality(keep)
            /\ \A r \in 1..Len(rows) : rows[r] = an_input[NthOf(keep, r)]

C7_Witness ==
    /\ AnalyzeReturned
    /\ Len(result.value) >= 2
    /\ \E i \in 1..Len(an_input) : \E j \in (i + 1)..Len(an_input) :
       \E l \in (j + 1)..Len(an_input) :
           /\ SameNameIgnoringCase(an_input[i], an_input[l])
           /\ an_input[i] # an_input[l]
           /\ ~SameNameIgnoringCase(an_input[i], an_input[j])

\* C8: with n deduplicated records and effective_k = min(k, n): every record
\* gets cluster 0 when n < 2, effective_k <= 1 or n <= effective_k (with the
\* 'too few' message when n >= 2); otherwise every label lies in
\* 0..effective_k - 1.
C8_ClusterLabels ==
    AnalyzeReturned =>
        LET rows == result.value
            n == Len(rows)
            ek == IF n_clusters <= n THEN n_clusters ELSE n
            degenerate == n < 2 \/ ek <= 1 \/ n <= ek
            tooFew == \E m \in 1..Len(messages) : messages[m].kind = "too_few"
        IN  /\ degenerate => \A i \in 1..n : rows[i].cluster = 0
            /\ ~degenerate => \A i \in 1..n : rows[i].cluster \in 0..(ek - 1)
            /\ status_callback => (tooFew <=> (n >= 2 /\ (ek <= 1 \/ n <= ek)))

C8_Witness ==
    /\ AnalyzeReturned
    /\ Len(result.value) > n_clusters
    /\ n_clusters > 1
    /\ \E i \in 1..Len(result.value) : result.value[i].cluster = n_clusters - 1

\* C9: the number of distinct labels is at most the target k and at most the
\* number of unique records; a target above the number of records gives one
\* cluster and no error.
C9_ClusterCountBounded ==
    /\ pc # "an_raised"
    /\ AnalyzeReturned =>
        /\ result.kind = "returned"
        /\ Cardinality(Labels(result.value)) <= n_clusters
        /\ Cardinality(Labels(result.value)) <= Len(result.value)
        /\ n_clusters > Len(result.value) => Cardinality(Labels(result.value)) = 1

C9_Witness ==
    /\ AnalyzeReturned
    /\ Len(result.value) >= 2
    /\ n_clusters > Len(result.value)
    /\ Labels(result.value) = {0}

\* C10: a failure of vectorization or k-means is caught: every deduplicated
\* record gets cluster 0 and analyze returns them; every returned record
\* carries a cluster label.
C10_ClusteringFailureDegrades ==
    /\ pc # "an_raised"
    /\ result.kind # "raised"
    /\ AnalyzeReturned =>
        /\ \A i \in 1..Len(result.value) : result.value[i].cluster \in Nat
        /\ outcomes[1].how = "kmeans_failed" =>
               /\ Labels(result.value) = {0}
               /\ Len(result.value) = Cardinality(FirstPositions(an_input))
               /\ df = [set |-> TRUE, rows |-> result.value]

C10_Witness ==
    /\ AnalyzeReturned
    /\ outcomes[1].how = "kmeans_failed"
    /\ Len(result.value) >= 3
    /\ Labels(result.value) = {0}

----------------------------------------------------------------------------
(* Claims about the pre-filter and the batches of extract_startups *)

\* some keyword occurs in the text, letter case ignored
MatchesKeyword(text) ==
    \E i \in 1..Len(keywords) :
        \E p \in 0..(Len(text) - Len(keywords[i])) :
            \A j \in 1..Len(keywords[i]) : LowerChar(text[p + j]) = keywords[i][j]

FieldMatches(f) == f # Absent /\ MatchesKeyword(f.v)

\* s is the subsequence of the elements of as at the positions in keep
IsSelection(s, as, keep) ==
    /\ Len(s) = Cardinality(keep)
    /\ \A r \in 1..Len(s) : s[r] = as[NthOf(keep, r)]

C12_EmptyFilterReturnsEmpty ==
    (pc # "idle" /\ filtered = <<>>) =>
        /\ pc = "returned"
        /\ result = Returned(<<>>)
        /\ calls = 0
        /\ chunks = <<>>
        /\ outcomes = <<>>

\* a non-empty input of which the pre-filter kept nothing
C12_Witness ==
    /\ pc = "returned"
    /\ articles # <<>>
    /\ filtered = <<>>
    /\ result = Returned(<<>>)

\* the least m with m * d >= n
CeilDiv(n, d) == CHOOSE m \in 0..n : m * d >= n /\ (m = 0 \/ (m - 1) * d < n)

RECURSIVE ConcatAll(_)
ConcatAll(ss) == IF ss = <<>> THEN <<>> ELSE Head(ss) \o ConcatAll(Tail(ss))

\* C13: n filtered articles are cut into ceil(n / CHUNK_SIZE) contiguous
\* batches of CHUNK_SIZE articles, the last one possibly shorter; each
\* article is in exactly one batch and the model is invoked once per batch.
C13_ContiguousBatches ==
    LET done == ConcatAll(chunks)
    IN  /\ calls = Len(chunks)
        /\ Len(done) <= Len(filtered)
        /\ done = SubSeq(filtered, 1, Len(done))
        /\ \A i \in 1..(Len(chunks) - 1) : Len(chunks[i]) = CHUNK_SIZE
        /\ chunks # <<>> => Len(chunks[Len(chunks)]) \in 1..CHUNK_SIZE
        /\ pc = "returned" =>
               /\ Len(chunks) = CeilDiv(Len(filtered), CHUNK_SIZE)
               /\ done = filtered
               /\ Len(outcomes) = Len(chunks)

\* a run over more than one batch whose last batch is shorter
C13_Witness ==
    /\ pc = "returned"
    /\ Len(filtered) > CHUNK_SIZE
    /\ Len(chunks) = 2
    /\ Len(chunks[1]) = CHUNK_SIZE
    /\ Len(chunks[2]) < CHUNK_SIZE
    /\ calls = 2

----------------------------------------------------------------------------
(* Claims about the records extract_startups builds *)

\* the elements of the array a batch parsed (none when it parsed no array)
ParsedItems(o) == IF o.parsed.kind = "arr" THEN o.parsed.items ELSE <<>>

\* an object whose name is present and not empty
NamedObject(item) ==
    /\ item.kind = "obj"
    /\ item.name.ty \in {"str", "int"}
    /\ item.name.v # <<>>

NamedPositions(items) == {k \in 1..Len(items) : NamedObject(items[k])}

\* C14: the returned list is the concatenation, in batch order, of each
\* batch's accepted records in the order of its parsed array; the accepted
\* elements are exactly the objects with a non-empty name, and an element
\* that is not an object is skipped without failing its batch.
C14_ResultIsConcatenation ==
    /\ \A i \in 1..Len(outcomes) :
           LET items == ParsedItems(outcomes[i])
               keep == NamedPositions(items)
               recs == outcomes[i].recs
           IN  /\ Len(recs) = Cardinality(keep)
               /\ \A r \in 1..Len(recs) : recs[r] = Cleaned(items[NthOf(keep, r)])
    /\ pc = "returned" => result = Returned(ConcatRecs(outcomes))

\* two batches, the first with a number between two accepted objects
C14_Witness ==
    /\ pc = "returned"
    /\ Len(outcomes) = 2
    /\ \E k \in 1..Len(ParsedItems(outcomes[1])) :
           ParsedItems(outcomes[1])[k].kind = "num"
    /\ Len(outcomes[1].recs) = 2
    /\ Len(outcomes[2].recs) = 2
    /\ outcomes[1].recs # outcomes[2].recs
    /\ result.value = outcomes[1].recs \o outcomes[2].recs

\* t is raw without its leading and trailing blanks
IsTrimOf(t, raw) ==
    /\ t = <<>> \/ (t[1] # " " /\ t[Len(t)] # " ")
    /\ \E a \in 0..Len(raw) :
           /\ a + Len(t) <= Len(raw)
           /\ SubSeq(raw, a + 1, a + Len(t)) = t
           /\ \A j \in (1..a) \cup ((a + Len(t) + 1)..Len(raw)) : raw[j] = " "

\* the text a record's field must hold for the value f of the object's key
FieldIs(t, f, default) ==
    IF f = Absent THEN t = default ELSE IsTrimOf(t, Str(f))

\* C15: every record built from an accepted object has exactly the fields
\* name, description, country and category, each the trimmed text of the
\* object's value; a missing country gives "Unknown", a missing category
\* "Other", a missing description the empty string.
C15_CleanedFields ==
    \A i \in 1..Len(outcomes) :
        LET items == ParsedItems(outcomes[i])
            keep == NamedPositions(items)
            recs == outcomes[i].recs
        IN  /\ Len(recs) = Cardinality(keep)
            /\ \A r \in 1..Len(recs) :
                   LET it == items[NthOf(keep, r)]
                   IN  /\ DOMAIN recs[r] = {"name", "description", "country", "category"}
                       /\ IsTrimOf(recs[r].name, Str(it.name))
                       /\ FieldIs(recs[r].description, it.description, <<>>)
                       /\ FieldIs(recs[r].country, it.country, Unknown)
                       /\ FieldIs(recs[r].category, it.category, Other)

\* a record whose name and country were trimmed and whose description and
\* category were missing, next to one with all four fields given
C15_Witness ==
    \E i \in 1..Len(outcomes) :
        /\ Len(outcomes[i].recs) = 2
        /\ outcomes[i].recs[1] =
               [name |-> <<"a", "c">>, description |-> <<>>,
                country |-> <<"D", "E">>, category |-> Other]
        /\ outcomes[i].recs[2] =
               [name |-> <<"A", "c">>, description |-> <<"d">>,
                country |-> <<"U", "S">>, category |-> <<"A", "I">>]

----------------------------------------------------------------------------
(* Claims about _extract_json_from_response and _call_ollama *)

\* the bracket matches that parse as a non-empty array of objects
ObjectArrayMatches(ms) ==
    {k \in 1..Len(ms) :
        LET d == JsonLoads(StripTokens(ms[k]))
        IN  /\ d.ok
            /\ d.val.kind = "arr"
            /\ d.val.items # <<>>
            /\ \A e \in 1..Len(d.val.items) : d.val.items[e].kind = "obj"}

\* C16 as stated: the value returned is the leftmost non-greedy bracket
\* match that parses as a non-empty array of objects; if there is none, the
\* whole trimmed response when it parses as an array; otherwise nothing.
C16_FirstArrayOfObjects ==
    pc = "parsed" =>
        LET ms == FindAll(response)
            good == ObjectArrayMatches(ms)
            whole == JsonLoads(StripTokens(response))
        IN  IF good # {}
            THEN startups = JsonLoads(StripTokens(ms[NthOf(good, 1)])).val
            ELSE IF whole.ok /\ whole.val.kind = "arr"
                 THEN startups = whole.val
                 ELSE startups = JNone

\* t is the process output raw without its leading and trailing whitespace
IsTrimmedOutput(t, raw) ==
    /\ t = <<>> \/ (t[1] # "s" /\ t[Len(t)] # "s")
    /\ \E a \in 0..Len(raw) :
           /\ a + Len(t) <= Len(raw)
           /\ SubSeq(raw, a + 1, a + Len(t)) = t
           /\ \A j \in (1..a) \cup ((a + Len(t) + 1)..Len(raw)) : raw[j] = "s"

\* C17: each way the model process can end gives one result of its own:
\* exit status 0 returns the trimmed standard output; a timeout, a missing
\* binary and a non-zero exit status each raise with their own text (the
\* missing binary's names the remedy, the non-zero exit's carries the
\* diagnostic output); a failure never comes back as a response.
C17_OutcomeToResult ==
    \A i \in 1..Len(outcomes) :
        LET o == outcomes[i]
        IN  /\ o.how = "ok" =>
                   /\ "exc" \notin DOMAIN o
                   /\ \E out \in ModelOutputs : IsTrimmedOutput(o.response, out)
            /\ o.how # "ok" =>
                   /\ "exc" \in DOMAIN o
                   /\ o.response = <<>>
                   /\ o.recs = <<>>
            /\ o.how = "timeout" => o.exc = "Ollama request timed out"
            /\ o.how = "notfound" => o.exc =
                   "Ollama not found. Please install Ollama and ensure 'ollama serve' is running."
            /\ o.how = "nonzero" => o.exc = "Ollama error: stderr"

\* a non-zero exit followed by an output that had whitespace around it
C17_Witness ==
    /\ Len(outcomes) = 2
    /\ outcomes[1].how = "nonzero"
    /\ outcomes[2].how = "ok"
    /\ outcomes[2].response # <<>>
    /\ outcomes[2].response \notin ModelOutputs

----------------------------------------------------------------------------
(* Claims about generate_insights_summary *)

Summarized == pc = "an_summarized" /\ df.set /\ df.rows # <<>>

\* the names listed by the summary's sentence of the given kind
NamesIn(kind) ==
    LET k == CHOOSE j \in 1..Len(insights) : insights[j].kind = kind
    IN  insights[k].names

FirstIndex(col, v) == CHOOSE i \in 1..Len(col) : col[i] = v /\ \A j \in 1..(i - 1) : col[j] # v

\* u comes before v by descending count, ties by first occurrence
RanksBefore(col, u, v) ==
    \/ Occurrences(col, u) > Occurrences(col, v)
    \/ Occurrences(col, u) = Occurrences(col, v) /\ FirstIndex(col, u) < FirstIndex(col, v)

TopByCountThenFirstSeen(col) ==
    LET distinct == {col[i] : i \in 1..Len(col)}
        m == Min(3, Cardinality(distinct))
    IN  [i \in 1..m |->
            CHOOSE v \in distinct :
                Cardinality({u \in distinct : RanksBefore(col, u, v)}) = i - 1]

\* names are up to three of the most frequent values of col, distinct and
\* in descending order of count
IsTopByCount(names, col) ==
    LET distinct == {col[i] : i \in 1..Len(col)}
    IN  /\ Len(names) = Min(3, Cardinality(distinct))
        /\ \A i \in 1..Len(names) : names[i] \in distinct
        /\ \A i, j \in 1..Len(names) : i < j =>
               names[i] # names[j] /\ Occurrences(col, names[i]) >= Occurrences(col, names[j])
        /\ \A v \in distinct : (\A i \in 1..Len(names) : names[i] # v) =>
               \A i \in 1..Len(names) : Occurrences(col, v) <= Occurrences(col, names[i])

C19_SummaryShape ==
    pc = "an_summarized" =>
        IF ~df.set \/ Len(df.rows) = 0
        THEN insights = << [kind |-> "no_data", n |-> 0, names |-> <<>>] >>
        ELSE /\ insights[1] = [kind |-> "total", n |-> Len(df.rows), names |-> <<>>]
             /\ \A j \in 2..Len(insights) : insights[j].kind \notin {"total", "no_data"}
             /\ (\E j \in 1..Len(insights) : insights[j].kind = "clusters")
                    <=> Cardinality(Labels(df.rows)) > 1
             /\ \A j \in 1..Len(insights) : insights[j].kind = "clusters" =>
                    insights[j].n = Cardinality(Labels(df.rows))

\* a summary of records clustered under two distinct labels
C19_Witness ==
    /\ pc = "an_summarized"
    /\ Len(df.rows) = 3
    /\ Cardinality(Labels(df.rows)) = 2
    /\ insights[1].kind = "total"
    /\ insights[1].n = 3
    /\ insights[Len(insights)] = [kind |-> "clusters", n |-> 2, names |-> <<>>]

----------------------------------------------------------------------------
(* Claims about the scan from extraction to analysis *)

\* the two articles of the example, in either order
AcmeAndGeneric ==
    /\ Len(articles) = 2
    /\ {articles[1], articles[2]} = {ArtAcme, ArtGeneric}

AcmeRecord ==
    [name |-> <<"A", "c", "m", "e">>,
     description |-> <<"A", "I", " ", "p", "l", "a", "t", "f", "o", "r", "m">>,
     country |-> <<"U", "S">>, category |-> <<"A", "I">>]

\* the model printed the one-element array naming Acme
ModelNamedAcme ==
    /\ Len(outcomes) >= 1
    /\ outcomes[1].how = "ok"
    /\ outcomes[1].response = <<"[", "o7", "]">>

\* C20: of the Acme article and an unrelated one the pre-filter retains
\* only the first; extraction makes exactly one model invocation; when the
\* model prints the one-element array naming Acme, extraction returns
\* exactly the record named Acme, and analyze with a target of 6 clusters
\* gives that single record cluster 0.
C20_EndToEnd ==
    AcmeAndGeneric =>
        /\ pc # "idle" => filtered = <<ArtAcme>>
        /\ pc \in {"returned", "stopped", "an_idle", "an_returned"} => calls = 1
        /\ (pc = "returned" /\ ModelNamedAcme) => result = Returned(<<AcmeRecord>>)
        /\ (pc = "an_returned" /\ ModelNamedAcme) =>
               /\ n_clusters = 6
               /\ an_input = <<AcmeRecord>>
               /\ Len(result.value) = 1
               /\ result.value[1].name = <<"A", "c", "m", "e">>
               /\ result.value[1].cluster = 0
               /\ df.rows = result.value

\* the example run up to the return of analyze
C20_Witness ==
    /\ AcmeAndGeneric
    /\ ModelNamedAcme
    /\ pc = "an_returned"
    /\ calls = 1
    /\ Len(df.rows) = 1
    /\ df.rows[1].cluster = 0

----------------------------------------------------------------------------
(* Claims about the order of the batches, the progress sink and the input *)

\* C21: batches are processed one at a time in ordinal order: an
\* invocation starts only when every earlier one has returned or failed
\* and its records have been accumulated; never are two outstanding.
C21_OneBatchAtATime ==
    /\ calls - Len(outcomes) \in {0, 1}
    /\ calls = Len(outcomes) + 1 <=> pc = "calling"
    /\ Len(chunks) = calls
    /\ pc = "calling" =>
           /\ all_startups = ConcatRecs(outcomes)
           /\ chunks[calls] =
                  SubSeq(filtered, CHUNK_SIZE * (calls - 1) + 1,
                         IF CHUNK_SIZE * calls < Len(filtered)
                         THEN CHUNK_SIZE * calls ELSE Len(filtered))

\* the second invocation in flight, the first batch's records accumulated
C21_Witness ==
    /\ pc = "calling"
    /\ calls = 2
    /\ Len(outcomes) = 1
    /\ outcomes[1].recs # <<>>
    /\ all_startups = outcomes[1].recs

\* C23: extract_startups never changes the caller's list of articles: no
\* step of the call alters its length, its order or a field of an article.
C23_InputUnchanged == [][articles' = articles]_vars

\* a call that returned records after the pre-filter dropped an article
C23_Witness ==
    /\ pc = "returned"
    /\ Len(filtered) < Len(articles)
    /\ outcomes # <<>>
    /\ result.value # <<>>

\* the records a batch contributes, given only how its invocation ended
\* and what it printed
RecordsOf(o) ==
    IF o.how # "ok" THEN <<>>
    ELSE LET parsed == ExtractJsonFromResponse(o.response)
         IN  IF parsed.kind = "arr" THEN BatchRecords(parsed.items) ELSE <<>>

\* C22: what extract_startups and analyze return is a function of their
\* inputs and of the model's (and k-means') outcomes alone; whether a status
\* callback is installed does not enter into it.
C22_SinkDoesNotAffectResults ==
    /\ pc = "returned" =>
           LET kept == {i \in 1..Len(articles) :
                           \/ FieldMatches(articles[i].content)
                           \/ FieldMatches(articles[i].summary)
                           \/ FieldMatches(articles[i].title)}
           IN  /\ Len(outcomes) = CeilDiv(Cardinality(kept), CHUNK_SIZE)
               /\ result = Returned(ConcatAll([i \in 1..Len(outcomes) |->
                                                  RecordsOf(outcomes[i])]))
    /\ (pc = "an_returned" /\ an_input = <<>>) => result = Returned(<<>>)
    /\ (pc = "an_returned" /\ an_input # <<>>) =>
           LET n == Cardinality(FirstPositions(an_input))
               runs == n_clusters > 1 /\ n > n_clusters
           IN  /\ Unclustered(result.value) =
                      [r \in 1..n |-> an_input[NthOf(FirstPositions(an_input), r)]]
               /\ outcomes[1].how = "no_kmeans" <=> ~runs
               /\ outcomes[1].how # "kmeans_ok" => Labels(result.value) = {0}

\* records returned with no callback installed and nothing reported
C22_Witness ==
    /\ ~status_callback
    /\ messages = <<>>
    /\ pc = "returned"
    /\ Len(outcomes) = 2
    /\ Len(result.value) >= 2

----------------------------------------------------------------------------
(* Claims about the messages of analyze and of extract_startups *)

\* C28 as stated: the number in the message 'Clustering complete: N
\* clusters created' is the number of distinct cluster labels of the
\* returned records.
C28_ReportedClustersAreAssigned ==
    pc = "an_returned" =>
        \A j \in 1..Len(messages) :
            messages[j].kind = "clusters_created" =>
                messages[j].a = Cardinality(Labels(result.value))

\* C29: with a callback installed the messages of extract_startups are:
\* three opening messages, then for each batch in order one 'Processing
\* batch i/total' followed by one outcome message of batch i (found with
\* the number of records the batch appended, none, or error), and at the
\* end 'Extraction complete' with the length of the returned list.
C29_MessageProtocol ==
    (status_callback /\ pc # "idle" /\ filtered # <<>>) =>
        LET total == CeilDiv(Len(filtered), CHUNK_SIZE)
            done == Len(outcomes)
        IN  /\ Len(messages) = 3 + calls + done + (IF pc = "returned" THEN 1 ELSE 0)
            /\ \A i \in 1..calls :
                   /\ messages[3 + 2 * i - 1].kind = "processing"
                   /\ messages[3 + 2 * i - 1].a = i
                   /\ messages[3 + 2 * i - 1].b = total
            /\ \A i \in 1..done :
                   LET m == messages[3 + 2 * i]
                   IN  /\ m.kind \in {"found", "none", "error"}
                       /\ m.a = i
                       /\ m.kind = "found" => m.b = Len(outcomes[i].recs)
                       /\ m.kind # "found" => outcomes[i].recs = <<>>
            /\ pc = "returned" =>
                   /\ messages[Len(messages)].kind = "complete"
                   /\ messages[Len(messages)].a = Len(result.value)

\* a reported run of two batches: one found records, the other failed
C29_Witness ==
    /\ status_callback
    /\ pc = "returned"
    /\ Len(outcomes) = 2
    /\ Len(messages) = 8
    /\ messages[5].kind = "found"
    /\ messages[5].b = 2
    /\ messages[7].kind = "error"
    /\ messages[8].a = 2

----------------------------------------------------------------------------
(* Claims about repeated analyze calls *)

\* C27 as stated: once an analyze call has returned, the summary and the
\* statistics describe the records of that call; after analyze of the
\* empty list they are the no-data message and the empty mapping.
C27_SummaryOfLatestCall ==
    result.kind = "returned" =>
        LET n == Cardinality(FirstPositions(an_input))
        IN  /\ pc = "an_summarized" =>
                   IF an_input = <<>>
                   THEN insights = << [kind |-> "no_data", n |-> 0, names |-> <<>>] >>
                   ELSE insights[1] = [kind |-> "total", n |-> n, names |-> <<>>]
            /\ pc = "an_stats" =>
                   IF an_input = <<>>
                   THEN DOMAIN stats.value = {}
                   ELSE stats.value.total_startups = n

----------------------------------------------------------------------------
(* Claims about enrich_startups *)

\* the records differ at most in the two keys a scrape writes
SameRecord(a, b) ==
    /\ a.name = b.name
    /\ a.country = b.country
    /\ a.category = b.category
    /\ a.url = b.url

Requested(i) == \E r \in DOMAIN enrich.requests : enrich.requests[r] = i

\* C30: enrich_startups returns the records of its input in the same order
\* and number; a record without a url, or with a description of more than
\* 100 characters, is returned unchanged, gets no `enriched` key and causes
\* no request; on a list of records as extract_startups appends them
\* nothing changes and no request is made.
C30_EnrichKeepsRecords ==
    pc = "en_returned" =>
        LET given == enrich.given
            out == result.value
        IN  /\ Len(out) = Len(given)
            /\ \A i \in DOMAIN given : SameRecord(out[i], given[i])
            /\ \A i \in DOMAIN given :
                  (\/ given[i].url \in {Absent, FStr(<<>>)}
                   \/ Len(given[i].description) > LongDescription)
                  => /\ out[i] = given[i]
                     /\ out[i].enriched = Absent
                     /\ ~Requested(i)
            /\ (\A i \in DOMAIN given : given[i].url = Absent)
                  => /\ out = given
                     /\ enrich.requests = <<>>

C30_Witness ==
    /\ pc = "en_returned"
    /\ Len(enrich.given) = 3
    /\ enrich.given[1].url = Absent
    /\ Len(enrich.given[2].description) > LongDescription
    /\ enrich.given[2].url # Absent
    /\ Requested(3)
    /\ result.value[3].enriched = FBool(TRUE)

----------------------------------------------------------------------------
(* Claims about fetch_all_sources *)

\* C25 as stated: a call with a category that is not a key of
\* FEEDS_BY_TOPIC ends by returning the articles collected from the
\* 'General Startups' feeds, followed by the OpenVC entries if requested.
C25_UnknownCategoryFallsBack ==
    (pc \in {"rs_returned", "rs_raised"}
        /\ research.feed_category \notin DOMAIN FEEDS_BY_TOPIC)
    => /\ research.feeds = FEEDS_BY_TOPIC[GeneralStartups]
       /\ result.kind = "returned"
       /\ result.value = research.all_data

----------------------------------------------------------------------------
(* Claims about the scan workflow of the app *)

IsPrefix(s, t) == Len(s) <= Len(t) /\ SubSeq(t, 1, Len(s)) = s

Invoked(stage) == \E i \in DOMAIN session.stages : session.stages[i] = stage

\* the script run of a scan has ended
ScanEnded == pc = "app_idle" /\ session.stages # <<>>

\* C24 as stated: the stages run in the order research, extraction,
\* optional enrichment, analysis; without source data an error is surfaced
\* and extraction is not invoked; without extracted startups a warning is
\* surfaced and analysis is not invoked; with at least one extracted
\* startup analysis runs and its results are stored in the session.
C24_StagesAndStoredResults ==
    /\ \/ IsPrefix(session.stages, <<"research", "extraction", "enrichment", "analysis">>)
       \/ IsPrefix(session.stages, <<"research", "extraction", "analysis">>)
    /\ Invoked("enrichment") => session.config_values.enable_enrichment
    /\ (ScanEnded /\ research.all_data = <<>>)
          => session.notice = "error" /\ ~Invoked("extraction")
    /\ (ScanEnded /\ Invoked("extraction") /\ all_startups = <<>>)
          => session.notice = "warning" /\ ~Invoked("analysis")
    /\ (ScanEnded /\ all_startups # <<>>)
          => /\ Invoked("analysis")
             /\ df.set
             /\ session.results = Stored(all_startups)
             /\ session.analysis_df = df
             /\ session.insights_summary = insights

\* C26 as stated: a scan that counts as running (should_run_scan true,
\* scan_completed false) eventually stops counting as running.
C26_ScanLeavesRunning == Running(session) ~> ~Running(session)

====
